---- MODULE Spec2Model ----
(***************************************************************************)
(* The checkpoint engine of sessionlog: temporary checkpoints on shadow    *)
(* branches (saveStep / writeTemporary), trailer injection                 *)
(* (prepareCommitMsg), promotion to the metadata branch (postCommit /      *)
(* condenseSession / writeCommitted), shadow-branch migration, and the     *)
(* installed git hooks (generateHookScript / cmdHooksGit) working on the   *)
(* commit message file and pushing the metadata branch; with them the     *)
(* session store (load / list / save / delete over atomicWriteFile), the   *)
(* naming of branches and checkpoint paths, transcript chunking, and the   *)
(* installation of the hooks (installGitHooks / uninstallGitHooks).        *)
(*                                                                         *)
(* Git is modelled by what the engine's git commands do: user commits      *)
(* with a parent, a tree and a message trailer; shadow commits with a      *)
(* parent and a tree; refs by their full name; the metadata branch as a    *)
(* log of commits whose root tree maps checkpoint ids to checkpoints.      *)
(***************************************************************************)
EXTENDS Naturals, Sequences, FiniteSets, TLC

\* ------------------------------------------------------------------ bounds
MaxCommits == 3      \* user commits in the repository, the root included
MaxSteps == 2        \* shadow commits ever written
MaxClock == 1        \* the clock starts at 0 and stops at MaxClock
MaxContent == 2      \* file contents are 1..MaxContent; 0 is "no such file"
MaxMigrateSteps == 3 \* shadow commits ever written while HEAD moves
MaxCollisions == 1   \* commits whose 7-character hash prefix is that of an earlier commit
MaxWrites == 3       \* writeCommitted calls made by concurrent writers
MaxHookCommits == 1  \* commits made with the installed hooks
MaxHookRuns == 2     \* runs of the message hooks on one message file
MaxPushes == 2       \* runs of the pre-push hook

Files == {"a", "b"}
Sessions == {"s1", "s2"}
Writers == {"w1", "w2"}
\* "a" is a tracked file the agent rewrites; "b" comes and goes
Contents(f) == IF f = "a" THEN 1..MaxContent ELSE 0..(MaxContent - 1)
CommitIds == 1..MaxCommits

NoWorktree == "none"

\* The two places a ref written by the engine can land in: updateRef prepends
\* "refs/heads/" to the name it is given, whatever that name is.
Heads == "refs/heads/"
HeadsHeads == "refs/heads/refs/heads/"

\* --------------------------------------------------------------- variables
VARIABLES
  commits,    \* user commits: <<[parent, tree, cp, short]>>; parent 0 = none, cp 0 = no trailer
  head,       \* HEAD
  work,       \* working tree: Files -> Contents
  phase,      \* where `git commit` stands: idle, prepare, ready, post
  staged,     \* files staged for the commit in progress
  source,     \* prepare-commit-msg source of the commit in progress
  msg,        \* checkpoint trailer in the message file (0 = none)
  refs,       \* full ref name -> index into objs (0 = no such ref)
  objs,       \* shadow commits: <<[parent, tree, date]>>
  sessions,   \* session store: Sessions -> session state
  cpLog,      \* commits of the metadata branch: <<[parent, root]>>
  cpTip,      \* the metadata branch ref (0 = no such branch)
  issued,     \* checkpoint ids generated so far
  last,       \* what the last engine call did
  writers,    \* writeCommitted calls in progress: Writers -> where each stands
  file,       \* the commit message file git hands to the hooks: its lines
  hook,       \* the last run of an installed git hook
  remote,     \* the metadata branch on the remote (0 = not pushed)
  cwd,        \* the worktree the engine runs in; `work` and `head` are its own
  parked,     \* working tree and HEAD of the worktree the engine is not in
  call,       \* the last application of one of the engine's pure functions
  disk,       \* the sessions directory: path -> file
  now,        \* the clock
  got,        \* what the last call of the session store answered
  procs,      \* the processes saving a session: where each stands
  saved,      \* session id -> the state of the last save that completed
  metaTree,   \* the root tree of the metadata branch, entry by entry
  hooksDir,   \* the hook files of the repository and the last (un)install
  settings    \* the two settings files, and the last enable or disable

vars == <<commits, head, work, phase, staged, source, msg, refs, objs,
          sessions, cpLog, cpTip, issued, last, writers, file, hook, remote,
          cwd, parked, call, disk, now, got, procs, saved, metaTree, hooksDir,
          settings>>

\* the files of the session store
storeVars == <<disk, now, got, procs, saved>>

\* what one `git commit` in one worktree never touches
sideVars == <<cwd, parked, call, storeVars, metaTree, hooksDir, settings>>

\* the repository, the commit in progress and the worktrees
repoVars == <<commits, head, work, phase, staged, source, msg, refs, objs,
              sessions, cpLog, cpTip, issued, last, writers, file, hook, remote,
              cwd, parked, metaTree, hooksDir, settings>>

\* what the installed hooks work on
hookVars == <<file, hook, remote>>

\* all but the metadata branch and its writers
engineVars == <<commits, head, work, phase, staged, source, msg, refs, objs,
                sessions, issued, last, file, hook, remote, sideVars>>

\* a writer that is not in a call
NoWriter == [pc |-> "idle", checkpointID |-> 0, sessionID |-> "none",
             branchExists |-> FALSE, parentHash |-> 0, commitHash |-> 0,
             shardEntries |-> <<>>, rootEntries |-> <<>>]

\* no hook has run
NoHook == [name |-> "none", how |-> "ok", stripped |-> FALSE, skip |-> FALSE,
           raised |-> FALSE, pushed |-> "none", cliExit |-> 0, exit |-> 0,
           runs |-> 0, clean |-> FALSE]

\* the worktrees of the repository: the main one and a linked one
Worktrees == {"wt1", "wt2"}

\* no pure function has been applied
NoCall == [fn |-> "none"]

\* the four hooks the engine installs
HOOK_NAMES == {"prepare-commit-msg", "commit-msg", "post-commit", "pre-push"}
NoHookFile == [there |-> FALSE, content |-> <<>>]
\* no hook file, and neither install nor uninstall has run
NoHooks == [files |-> [h \in HOOK_NAMES |-> NoHookFile], op |-> "none", installed |-> 0]

\* a settings file that does not exist, and the directory before the first enable
NoSettingsFile == [there |-> FALSE, enabled |-> {}]
NoSettings == [project |-> NoSettingsFile, local |-> NoSettingsFile,
               op |-> "none", disabled |-> FALSE]

\* what `last` holds after anything but a step
Other == [op |-> "other", sid |-> "none", outcome |-> "none", files |-> {}]

\* ------------------------------------------------------------------- trees
\* A root tree: the files, and one entry per metadata directory (the
\* directory of session s, and the one of a task of s, hold checkpoint.json, or
\* are absent).
NoMeta == [sessionID |-> "none", baseCommit |-> 0, timestamp |-> 0,
           modifiedFiles |-> {}, newFiles |-> {}, deletedFiles |-> {}]
\* `.entire/metadata/${sessionID}/tasks/${toolUseID}`, for the one task of a session
TaskDir(sid) == IF sid = "s1" THEN "s1/tasks/t1" ELSE "s2/tasks/t1"
MetadataDirs == Sessions \cup {TaskDir(sid) : sid \in Sessions}
NoDirs == [d \in MetadataDirs |-> NoMeta]

HeadTree == commits[head].tree

\* git rev-parse <ref>^{tree}, for a shadow commit
getTreeHash(ob, i) == ob[i].tree

\* ------------------------------------------------------------ session state
NoSession == [baseCommit |-> 0, stepCount |-> 0, filesTouched |-> {},
              lastCheckpointID |-> 0, tokenUsage |-> 0,
              transcriptIdentifierAtStart |-> 0, worktreeID |-> NoWorktree,
              worktreePath |-> "none"]

\* the state saveStep creates for a session it does not know: it records the
\* root of the worktree it runs in as worktreePath, and no worktreeID
NewSession(h) == [NoSession EXCEPT !.baseCommit = h, !.worktreePath = cwd]

mergeFilesTouched(existing, modifiedFiles, newFiles, deletedFiles) ==
  existing \cup modifiedFiles \cup newFiles \cup deletedFiles

\* -------------------------------------------------------------------- refs
RefNames == {Heads, HeadsHeads} \X CommitIds

\* The branch name is the prefix, the first 7 characters of the base commit's
\* hash and, with a worktree id, a dash and the hash of the worktree id.  Every
\* session the engine creates has no worktreeID, so the name is the 7-character
\* prefix alone.  Two commits can share that prefix.
ShortHash(c) == commits[c].short
getShadowBranchName(baseCommit, worktreeID) == ShortHash(baseCommit)

\* the prefixes a new commit can get: its own, or one already in use while
\* fewer than MaxCollisions commits collide
Collisions == Cardinality({c \in 1..Len(commits) : commits[c].short # c})
NewShorts ==
  {Len(commits) + 1} \cup
  (IF Collisions < MaxCollisions THEN {commits[c].short : c \in 1..Len(commits)} ELSE {})
OwnShort == Len(commits) + 1

\* git rev-parse --verify refs/heads/<name>: git tries the name as given and
\* then under refs/, refs/tags/, refs/heads/, ... so refs/heads/refs/heads/<name>
\* answers for it as well.
DwimTip(rf, name) ==
  IF rf[<<Heads, name>>] # 0 THEN rf[<<Heads, name>>] ELSE rf[<<HeadsHeads, name>>]
refExists(rf, name) == DwimTip(rf, name) # 0

\* git rev-parse <name>: a short branch name resolves to refs/heads/<name> only
RevParse(rf, name) == rf[<<Heads, name>>]

\* updateRef(ref, commit): git update-ref refs/heads/<ref> <commit>, no old value given
updateRef(rf, ns, name, commit) == [rf EXCEPT ![<<ns, name>>] = commit]

\* commits in HEAD's history (user commits only: a user commit's parent is one)
RECURSIVE Ancestors(_)
Ancestors(c) == IF c = 0 THEN {} ELSE {c} \cup Ancestors(commits[c].parent)

\* git branch -d refuses a branch whose tip is not merged into HEAD; -D does not
IsMerged(tip) == <<"shadow", tip>> \in {<<"user", c>> : c \in Ancestors(head)}
deleteBranch(rf, name, force) ==
  LET tip == rf[<<Heads, name>>] IN
  IF tip = 0 THEN [ok |-> FALSE, refs |-> rf]
  ELSE IF force \/ IsMerged(tip)
       THEN [ok |-> TRUE, refs |-> [rf EXCEPT ![<<Heads, name>>] = 0]]
       ELSE [ok |-> FALSE, refs |-> rf]

\* ------------------------------------------------- temporary checkpoints
\* buildMetadataTree: the checkpoint.json of a step
buildMetadataTree(opts, ts) ==
  [sessionID |-> opts.sessionID, baseCommit |-> opts.baseCommit, timestamp |-> ts,
   modifiedFiles |-> opts.modifiedFiles, newFiles |-> opts.newFiles,
   deletedFiles |-> opts.deletedFiles]

\* mergeMetadataIntoTree: the base tree's root entries, the one named
\* metadataDir replaced by the new metadata tree
mergeMetadataIntoTree(baseTree, metadataEntries, metadataDir) ==
  [baseTree EXCEPT !.dirs[metadataDir] = metadataEntries]

\* writeTemporary with HEAD as the parent of every checkpoint
writeTemporaryOnHead(opts, ts, rf, ob) ==
  LET branchName == getShadowBranchName(opts.baseCommit, opts.worktreeID)
      branchExists == refExists(rf, branchName)
      parentHash == RevParse(rf, branchName)
      newTree == mergeMetadataIntoTree(HeadTree, buildMetadataTree(opts, ts),
                                       opts.metadataDir)
      commit == [parent |-> [kind |-> "user", id |-> head],
                 tree |-> newTree, date |-> ts]
      commitHash == Len(ob) + 1
  IN
  IF branchExists /\ parentHash = 0
  THEN [outcome |-> "threw", commitHash |-> 0, refs |-> rf, objs |-> ob]
  ELSE IF branchExists /\ getTreeHash(ob, parentHash) = HeadTree
  THEN [outcome |-> "skipped", commitHash |-> parentHash, refs |-> rf, objs |-> ob]
  ELSE [outcome |-> "written", commitHash |-> commitHash,
        refs |-> updateRef(rf, Heads, branchName, commitHash),
        objs |-> Append(ob, commit)]

\* writeTemporary.  Result: what happened, the commit, the refs and objects
\* afterwards.  "threw" is a git command failing inside it.
writeTemporary(opts, ts, rf, ob) ==
  LET branchName == getShadowBranchName(opts.baseCommit, opts.worktreeID)
      branchExists == refExists(rf, branchName)
      parentHash == RevParse(rf, branchName)
      newTree == mergeMetadataIntoTree(HeadTree, buildMetadataTree(opts, ts),
                                       opts.metadataDir)
      commit == [parent |-> IF branchExists THEN [kind |-> "shadow", id |-> parentHash]
                            ELSE [kind |-> "user", id |-> head],
                 tree |-> newTree, date |-> ts]
      commitHash == Len(ob) + 1
  IN
  IF branchExists /\ parentHash = 0
  THEN [outcome |-> "threw", commitHash |-> 0, refs |-> rf, objs |-> ob]
  ELSE IF branchExists /\ getTreeHash(ob, parentHash) = HeadTree
  THEN [outcome |-> "skipped", commitHash |-> parentHash, refs |-> rf, objs |-> ob]
  ELSE [outcome |-> "written", commitHash |-> commitHash,
        refs |-> updateRef(rf, Heads, branchName, commitHash),
        objs |-> Append(ob, commit)]

\* ------------------------------------------------------------- migration
\* migrateShadowBranchIfNeeded: the state and the refs afterwards
migrateShadowBranchIfNeeded(state, rf) ==
  LET oldShadowBranch == getShadowBranchName(state.baseCommit, state.worktreeID)
      newShadowBranch == getShadowBranchName(head, state.worktreeID)
      moved == [state EXCEPT !.baseCommit = head]
      oldTip == DwimTip(rf, oldShadowBranch)
      \* updateRef(`refs/heads/${newShadowBranch}`, oldTip)
      renamed == updateRef(rf, HeadsHeads, newShadowBranch, oldTip)
  IN
  IF state.baseCommit = 0 \/ state.baseCommit = head
  THEN [migrated |-> FALSE, state |-> state, refs |-> rf]
  ELSE IF oldShadowBranch = newShadowBranch \/ ~refExists(rf, oldShadowBranch)
  THEN [migrated |-> TRUE, state |-> moved, refs |-> rf]
  ELSE [migrated |-> TRUE, state |-> moved,
        refs |-> deleteBranch(renamed, oldShadowBranch, FALSE).refs]

\* ------------------------------------------------------------------ steps
\* What a step reports: the files D the working tree has changed, by how it
\* differs from HEAD at them.
Dirty == {f \in Files : work[f] # HeadTree.files[f]}
StepOf(D) ==
  [modifiedFiles |-> {f \in D : HeadTree.files[f] # 0 /\ work[f] # 0},
   newFiles |-> {f \in D : HeadTree.files[f] = 0},
   deletedFiles |-> {f \in D : HeadTree.files[f] # 0 /\ work[f] = 0}]

\* the clock does not run backwards, and ticks at most once between two steps
Clock ==
  LET before == IF objs = <<>> THEN 0 ELSE objs[Len(objs)].date
  IN {t \in {before, before + 1} : t <= MaxClock}

\* sessions are started in the order of their names
Startable(sid) == sid = "s1" \/ sessions["s1"].baseCommit # 0

\* the session saveStep works on: the stored one, or a new one at HEAD
LoadOrInit(sid) ==
  IF sessions[sid].baseCommit = 0 THEN NewSession(head) ELSE sessions[sid]

\* migrateAndPersist, on the session saveStep works on
StepMigration(sid) == migrateShadowBranchIfNeeded(LoadOrInit(sid), refs)

\* the options saveStep passes to writeTemporary
StepOptions(sid, D) ==
  LET state == StepMigration(sid).state
      step == StepOf(D)
  IN [sessionID |-> sid, baseCommit |-> state.baseCommit,
      worktreeID |-> state.worktreeID,
      modifiedFiles |-> step.modifiedFiles, newFiles |-> step.newFiles,
      deletedFiles |-> step.deletedFiles, metadataDir |-> sid]

StepResult(sid, D, ts) ==
  writeTemporary(StepOptions(sid, D), ts, StepMigration(sid).refs, objs)

\* the step's transcript identifier: one per step
StepTranscriptIdentifier == Len(objs) + 1

\* the session state with a written step counted
CountStep(state, D) ==
  [state EXCEPT
     !.stepCount = @ + 1,
     !.filesTouched = mergeFilesTouched(@, StepOf(D).modifiedFiles,
                                        StepOf(D).newFiles, StepOf(D).deletedFiles),
     !.transcriptIdentifierAtStart =
         IF state.stepCount + 1 = 1 THEN StepTranscriptIdentifier ELSE @,
     !.tokenUsage = @ + 1]

\* saveStep without its return on result.skipped, as saveTaskStep is written
StoredAfterStepIgnoringSkip(state, result, D) ==
  IF result.outcome = "threw" THEN state ELSE CountStep(state, D)

\* the session state saveStep leaves in the store: the migrated state when the
\* write was skipped (or threw), else that state with the step counted
StoredAfterStep(state, result, D) ==
  IF result.outcome # "written" THEN state ELSE CountStep(state, D)

\* saveStep for session sid reporting the files D, the clock reading ts, while
\* fewer than steps shadow commits were written
saveStepWithin(sid, D, ts, steps) ==
  /\ phase = "idle"
  /\ D = Dirty
  /\ ts \in Clock
  /\ Startable(sid)
  /\ Len(objs) < steps
  /\ LET result == StepResult(sid, D, ts) IN
     /\ refs' = result.refs
     /\ objs' = result.objs
     /\ sessions' = [sessions EXCEPT ![sid] =
                       StoredAfterStep(StepMigration(sid).state, result, D)]
     /\ last' = [op |-> "saveStep", sid |-> sid, outcome |-> result.outcome,
                 files |-> D]
     /\ UNCHANGED <<writers, hookVars, sideVars>>
  /\ UNCHANGED <<commits, head, work, phase, staged, source, msg, cpLog, cpTip, issued>>

saveStep(sid, D, ts) == saveStepWithin(sid, D, ts, MaxSteps)

\* ------------------------------------------------------------ task steps
\* the options saveTaskStep passes to writeTemporary: those of saveStep, with
\* the metadata directory of the task
TaskStepOptions(sid, D) == [StepOptions(sid, D) EXCEPT !.metadataDir = TaskDir(sid)]

TaskStepResult(sid, D, ts) ==
  writeTemporary(TaskStepOptions(sid, D), ts, StepMigration(sid).refs, objs)

\* the session state saveTaskStep leaves in the store: the files merged,
\* whatever writeTemporary returned
StoredAfterTaskStep(state, result, D) ==
  IF result.outcome = "threw" THEN state
  ELSE [state EXCEPT !.filesTouched =
          mergeFilesTouched(@, StepOf(D).modifiedFiles, StepOf(D).newFiles,
                            StepOf(D).deletedFiles)]

\* saveTaskStep for a subagent of session sid reporting the files D
saveTaskStep(sid, D, ts) ==
  /\ phase = "idle"
  /\ D = Dirty
  /\ ts \in Clock
  /\ Startable(sid)
  /\ Len(objs) < MaxSteps
  /\ LET result == TaskStepResult(sid, D, ts) IN
     /\ refs' = result.refs
     /\ objs' = result.objs
     /\ sessions' = [sessions EXCEPT ![sid] =
                       StoredAfterTaskStep(StepMigration(sid).state, result, D)]
     /\ last' = [op |-> "saveTaskStep", sid |-> sid, outcome |-> result.outcome,
                 files |-> D]
     /\ UNCHANGED <<writers, hookVars, sideVars>>
  /\ UNCHANGED <<commits, head, work, phase, staged, source, msg, cpLog, cpTip, issued>>

\* ------------------------------------------------- committed checkpoints
Ids == 1..MaxCommits
validateCheckpointID(id) == id \in Ids

\* what a checkpoint directory holds: the session's metadata.json
NoCheckpoint == [sessionID |-> "none", checkpointsCount |-> 0, filesTouched |-> {},
                 tokenUsage |-> 0, transcriptIdentifierAtStart |-> 0]
EmptyRoot == [i \in Ids |-> NoCheckpoint]

\* the shard of an id is its first two characters: ids 1 and 3 share theirs
Shard(id) == id % 2

\* the metadata.json writeCommitted builds from its options
CommittedMetadata(opts) ==
  [sessionID |-> opts.sessionID,
   checkpointsCount |-> opts.checkpointsCount,
   filesTouched |-> opts.filesTouched,
   tokenUsage |-> opts.tokenUsage,
   transcriptIdentifierAtStart |-> opts.transcriptIdentifierAtStart]

\* the root tree built from the id's shard alone
ComposeRootOfShard(shardEntries, rootEntries, id, metadata) ==
  [i \in Ids |-> IF i = id THEN metadata
                 ELSE IF Shard(i) = Shard(id) THEN shardEntries[i]
                 ELSE NoCheckpoint]

\* the root tree writeCommitted builds: the entries listed from the id's shard
\* less the id's own, the root's entries less that shard, and the checkpoint
ComposeRoot(shardEntries, rootEntries, id, metadata) ==
  [i \in Ids |-> IF i = id THEN metadata
                 ELSE IF Shard(i) = Shard(id) THEN shardEntries[i]
                 ELSE rootEntries[i]]

\* git ls-tree of the metadata branch, when the call found the branch
lsTree(log, tip, baseTree) == IF baseTree /\ tip # 0 THEN log[tip].root ELSE EmptyRoot

\* writeCommitted run alone on the metadata branch (log, tip)
writeCommitted(log, tip, opts) ==
  LET branchExists == tip # 0
      rootTree == ComposeRoot(lsTree(log, tip, branchExists),
                              lsTree(log, tip, branchExists),
                              opts.checkpointID, CommittedMetadata(opts))
      commit == [parent |-> tip, root |-> rootTree, id |-> opts.checkpointID]
  IN [cpLog |-> Append(log, commit), cpTip |-> Len(log) + 1]

\* readCommitted(id) off the tip of the metadata branch
readCommitted(log, tip, id) == IF tip = 0 THEN NoCheckpoint ELSE log[tip].root[id]

\* readSessionContent(id, sessionIndex): the numbered subdirectory
\* sessionIndex + 1 of the checkpoint; writeCommitted writes subdirectory 1 only
readSessionContent(log, tip, id, sessionIndex) ==
  IF tip # 0 /\ sessionIndex + 1 = 1 THEN log[tip].root[id] ELSE NoCheckpoint

\* deleteShadowBranch: git branch -D, failure swallowed
deleteShadowBranch(rf, branchName) == deleteBranch(rf, branchName, TRUE).refs

\* condenseSession passing the session's filesTouched on as they are
condenseSessionUnfiltered(log, tip, sid, state, checkpointID, committedFiles) ==
  writeCommitted(log, tip,
    [checkpointID |-> checkpointID, sessionID |-> sid,
     filesTouched |-> state.filesTouched,
     checkpointsCount |-> state.stepCount,
     transcriptIdentifierAtStart |-> state.transcriptIdentifierAtStart,
     tokenUsage |-> state.tokenUsage])

\* condenseSession: the metadata branch after the session is written under
\* checkpointID, filesTouched cut down to the committed files
condenseSession(log, tip, sid, state, checkpointID, committedFiles) ==
  writeCommitted(log, tip,
    [checkpointID |-> checkpointID, sessionID |-> sid,
     filesTouched |-> {f \in state.filesTouched : f \in committedFiles},
     checkpointsCount |-> state.stepCount,
     transcriptIdentifierAtStart |-> state.transcriptIdentifierAtStart,
     tokenUsage |-> state.tokenUsage])

\* ------------------------------------------------------- overlap analyzer
\* the content of path f at the tip the shadow branch name resolves to
ShadowContent(rf, shadowBranch, f) == objs[DwimTip(rf, shadowBranch)].tree.files[f]

\* staged overlap: staged paths meet filesTouched, and the staged content at
\* such a path differs from the shadow tip's
stagedFilesOverlapWithContent(rf, shadowBranch, stagedFiles, filesTouched) ==
  \E f \in stagedFiles \cap filesTouched : work[f] # ShadowContent(rf, shadowBranch, f)

\* git diff --name-only parent head: added, modified and deleted files
diffNameOnly(parentC, headC) ==
  {f \in Files : commits[parentC].tree.files[f] # commits[headC].tree.files[f]}

\* the byte-wise comparison of the shadow tip with commit headC: the paths
\* at which they differ
ShadowDiffers(rf, shadowBranch, headC) ==
  {f \in Files : ShadowContent(rf, shadowBranch, f) # commits[headC].tree.files[f]}

\* committed overlap: a file of filesTouched is in the commit's diff, and the
\* committed content at it matches the shadow tip's (differs: the paths at
\* which the shadow tip and the commit differ)
filesOverlapWithContent(differs, headC, parentC, filesTouched) ==
  \E f \in filesTouched \cap diffNameOnly(parentC, headC) : f \notin differs

\* remaining agent work: filesTouched, less the paths whose content was
\* actually committed, that still differ between the shadow tip and the new HEAD
filesWithRemainingAgentChanges(differs, filesTouched, committedFiles) ==
  LET actuallyCommitted == committedFiles \ differs
  IN {f \in filesTouched \ actuallyCommitted : f \in differs}

\* ------------------------------------------------------------------- user
\* the user or the agent edits a file of the working tree
Edit(f, v) ==
  /\ phase = "idle"
  /\ work[f] # v
  /\ work' = [work EXCEPT ![f] = v]
  /\ last' = Other
  /\ UNCHANGED <<writers, hookVars, sideVars>>
  /\ UNCHANGED <<commits, head, phase, staged, source, msg, refs, objs,
                 sessions, cpLog, cpTip, issued>>

\* ------------------------------------------------------------------ hooks
findSessionsForCommit(baseCommitSHA) ==
  {sid \in Sessions : sessions[sid].baseCommit = baseCommitSHA}

\* the sessions prepareCommitMsg's loop can stop at, stagedFiles being staged
Overlapping(stagedFiles) ==
  {sid \in findSessionsForCommit(head) :
     LET state == sessions[sid]
         shadowBranch == getShadowBranchName(state.baseCommit, state.worktreeID)
     IN /\ state.stepCount # 0
        /\ state.filesTouched # {}
        /\ refExists(refs, shadowBranch)
        /\ stagedFilesOverlapWithContent(refs, shadowBranch, stagedFiles,
                                         state.filesTouched)}

\* prepareCommitMsg, run by `git commit` (src "message") or `git commit --amend`
\* (src "commit") with the files S staged; the message file starts with the
\* amended commit's trailer, or none.  The loop stops at the first overlapping
\* session in the store's listing order.
prepareCommitMsg(S, src) ==
  /\ phase = "idle"
  /\ Len(commits) < MaxCommits
  /\ S \subseteq Dirty
  /\ src = "commit" \/ S # {}
  /\ phase' = "ready"
  /\ staged' = S
  /\ source' = src
  /\ LET commitMsg == IF src = "commit" THEN commits[head].cp ELSE 0 IN
     IF (src = "commit" /\ commitMsg # 0) \/ S = {} \/ Overlapping(S) = {}
     THEN msg' = commitMsg /\ UNCHANGED issued
     ELSE \E sid \in Overlapping(S) :
            LET overlappingSession == sessions[sid] IN
            IF validateCheckpointID(overlappingSession.lastCheckpointID)
            THEN msg' = overlappingSession.lastCheckpointID /\ UNCHANGED issued
            ELSE msg' = issued + 1 /\ issued' = issued + 1
  /\ last' = Other
  /\ UNCHANGED <<writers, hookVars, sideVars>>
  /\ UNCHANGED <<commits, head, work, refs, objs, sessions, cpLog, cpTip>>

\* one round of postCommit's loop, for session sid, on acc = the sessions, refs
\* and metadata branch so far.  With open, the analyzer's comparison of the
\* shadow tip with the commit finds the paths in differs to differ.  For the
\* sessions in acc.failing condenseSession raises, which the loop catches: the
\* metadata branch stays as it is and the round goes on.
PostCommitSession(acc, sid, cpID, open, differs) ==
  LET state == sessions[sid]
      headHash == head
      parentHash == commits[head].parent
      committedFiles == diffNameOnly(parentHash, headHash)
      shadowBranch == getShadowBranchName(state.baseCommit, state.worktreeID)
      compared == IF open THEN differs
                  ELSE ShadowDiffers(acc.refs, shadowBranch, headHash)
      overlap == filesOverlapWithContent(compared, headHash, parentHash,
                                         state.filesTouched)
      condensed == IF sid \in acc.failing
                   THEN [cpLog |-> acc.cpLog, cpTip |-> acc.cpTip]
                   ELSE condenseSession(acc.cpLog, acc.cpTip, sid, state, cpID,
                                        committedFiles)
      remaining == filesWithRemainingAgentChanges(compared, state.filesTouched,
                                                  committedFiles)
      reset == [state EXCEPT !.baseCommit = headHash, !.stepCount = 0,
                             !.filesTouched = remaining, !.lastCheckpointID = cpID]
  IN
  IF state.stepCount = 0 \/ state.filesTouched = {} THEN acc
  ELSE IF ~refExists(acc.refs, shadowBranch) THEN acc
  ELSE IF ~overlap THEN acc
  ELSE [sessions |-> [acc.sessions EXCEPT ![sid] = reset],
        refs |-> IF remaining = {} THEN deleteShadowBranch(acc.refs, shadowBranch)
                 ELSE acc.refs,
        cpLog |-> condensed.cpLog,
        cpTip |-> condensed.cpTip,
        promoted |-> acc.promoted \cup {sid},
        failing |-> acc.failing]

RECURSIVE PostCommitLoop(_, _, _, _, _)
PostCommitLoop(acc, order, cpID, open, differs) ==
  IF order = <<>> THEN acc
  ELSE PostCommitLoop(PostCommitSession(acc, Head(order), cpID, open, differs),
                      Tail(order), cpID, open, differs)

\* the orders the store can list a set of sessions in
Orders(S) == {o \in UNION {[1..n -> S] : n \in 0..Cardinality(S)} :
                /\ Len(o) = Cardinality(S)
                /\ \A i, j \in 1..Len(o) : i # j => o[i] # o[j]}

\* postCommit without its return on a message that has no trailer
postCommitStepsWithoutTrailer(open, differs) ==
  /\ phase = "post"
  /\ phase' = "idle"
  /\ LET cpID == commits[head].cp
         parentHash == commits[head].parent
         start == [sessions |-> sessions, refs |-> refs, cpLog |-> cpLog,
                   cpTip |-> cpTip, promoted |-> {}, failing |-> {}]
     IN IF parentHash = 0 \/ findSessionsForCommit(parentHash) = {}
        THEN UNCHANGED <<sessions, refs, cpLog, cpTip>>
        ELSE \E order \in Orders(findSessionsForCommit(parentHash)) :
               LET end == PostCommitLoop(start, order, cpID, open, differs) IN
               /\ sessions' = end.sessions
               /\ refs' = end.refs
               /\ cpLog' = end.cpLog
               /\ cpTip' = end.cpTip
  /\ last' = Other
  /\ UNCHANGED <<commits, head, work, staged, source, msg, objs, issued>>

\* postCommit, all sessions of the parent commit in one call, condenseSession
\* raising for the sessions in failing
postCommitRun(open, differs, failing) ==
  /\ phase = "post"
  /\ phase' = "idle"
  /\ LET cpID == commits[head].cp
         parentHash == commits[head].parent
         start == [sessions |-> sessions, refs |-> refs, cpLog |-> cpLog,
                   cpTip |-> cpTip, promoted |-> {}, failing |-> failing]
     IN IF cpID = 0 \/ parentHash = 0 \/ findSessionsForCommit(parentHash) = {}
        THEN UNCHANGED <<sessions, refs, cpLog, cpTip>>
        ELSE \E order \in Orders(findSessionsForCommit(parentHash)) :
               LET end == PostCommitLoop(start, order, cpID, open, differs) IN
               /\ sessions' = end.sessions
               /\ refs' = end.refs
               /\ cpLog' = end.cpLog
               /\ cpTip' = end.cpTip
  /\ last' = Other
  /\ UNCHANGED <<commits, head, work, staged, source, msg, objs, issued>>

\* postCommit with every git command of condenseSession succeeding
postCommitSteps(open, differs) == postCommitRun(open, differs, {})

\* postCommit run by the strategy's caller
postCommit(open, differs) ==
  /\ postCommitSteps(open, differs)
  /\ UNCHANGED <<writers, hookVars, sideVars>>

\* ------------------------------------------------------------- git commit
\* git creates the commit: the staged files over HEAD's tree, the message's trailer
GitCommitCreate ==
  /\ phase = "ready"
  /\ phase' = "post"
  /\ commits' = Append(commits,
       [parent |-> IF source = "commit" THEN commits[head].parent ELSE head,
        tree |-> [HeadTree EXCEPT !.files =
                    [f \in Files |-> IF f \in staged THEN work[f] ELSE @[f]]],
        cp |-> msg, short |-> OwnShort])
  /\ head' = Len(commits) + 1
  /\ staged' = {}
  /\ last' = Other
  /\ UNCHANGED <<writers, hookVars, sideVars>>
  /\ UNCHANGED <<work, source, msg, refs, objs, sessions, cpLog, cpTip, issued>>

\* HEAD moves without the engine's hooks, to a commit made elsewhere: HEAD's
\* commit rewritten on its parent (rebase, reset and pull), or the tree of a
\* shadow commit committed on HEAD (the shadow branch merged).  Files the
\* working tree has changed keep their content.
MoveHead(tree, short) ==
  /\ phase = "idle"
  /\ Len(commits) < MaxCommits
  /\ \A f \in Dirty : tree.files[f] = HeadTree.files[f]
  /\ commits' = Append(commits,
       [parent |-> IF tree = HeadTree THEN commits[head].parent ELSE head,
        tree |-> tree, cp |-> 0, short |-> short])
  /\ head' = Len(commits) + 1
  /\ work' = [f \in Files |-> IF f \in Dirty THEN work[f] ELSE tree.files[f]]
  /\ last' = Other
  /\ UNCHANGED <<writers, hookVars, sideVars>>
  /\ UNCHANGED <<phase, staged, source, msg, refs, objs, sessions, cpLog, cpTip,
                 issued>>

\* ------------------------------------------------------------ session store
\* The store keeps one JSON document per session in <dir>/<sessionID>.json.
\* The clock counts ticks; STALE_SESSION_DAYS days are StaleAfter ticks.
StaleAfter == 2
MaxNow == 4
\* a document is written in DocLen pieces
DocLen == 2
Pids == {"p1", "p2"}

\* an optional field holds at most one value
Undefined == {}
Some(v) == {v}
OptionalKeys == {"endedAt"}

SessionPhases == {"idle", "active", "ended"}
NoState == [sessionID |-> "none", phase |-> "none", endedAt |-> Undefined,
            stepCount |-> 0]
\* the states the engine saves under id
StoreStates(id) ==
  [sessionID : {id}, phase : SessionPhases,
   endedAt : {Undefined} \cup {Some(t) : t \in 0..1}, stepCount : 0..1]

\* the files of the sessions directory: <id>.json and <id>.json.tmp.<pid>
sessionFilePath(sessionID) == <<"json", sessionID, "none">>
\* writing the document where it is read from
tmpPathInPlace(filePath, pid) == filePath
tmpPath(filePath, pid) == <<"tmp", filePath[2], pid>>
Paths == {sessionFilePath(id) : id \in Sessions}
           \cup {tmpPath(sessionFilePath(id), p) : id \in Sessions, p \in Pids}
NoFile == [doc |-> <<>>, len |-> 0, there |-> FALSE]
NoDisk == [p \in Paths |-> NoFile]

\* drops the fields whose value is undefined
serializeSessionState(state) ==
  [k \in {k \in DOMAIN state : k \notin OptionalKeys \/ state[k] # Undefined}
     |-> state[k]]

normalizePhase(ph) ==
  IF ph \in SessionPhases THEN ph ELSE "idle"

\* data[k] ?? default
Field(data, k, default) == IF k \in DOMAIN data THEN data[k] ELSE default

\* the same without the step counter
normalizeSessionStateLosingCount(id, data) ==
  [sessionID |-> Field(data, "sessionID", id),
   endedAt   |-> Field(data, "endedAt", Undefined),
   phase     |-> normalizePhase(Field(data, "phase", "idle")),
   stepCount |-> 0]

normalizeSessionState(id, data) ==
  [sessionID |-> Field(data, "sessionID", id),
   endedAt   |-> Field(data, "endedAt", Undefined),
   phase     |-> normalizePhase(Field(data, "phase", "idle")),
   stepCount |-> Field(data, "stepCount", 0)]

\* readFileSync and JSON.parse: a missing file and a document that breaks off
\* both throw, and the store answers null
parseSessionFile(d, filePath) ==
  IF ~d[filePath].there \/ d[filePath].len < DocLen THEN NoState
  ELSE normalizeSessionState(filePath[2], d[filePath].doc)

\* the same for a session in any phase
isStaleInAnyPhase(state, t) ==
  /\ state.endedAt # Undefined
  /\ \E endedAt \in state.endedAt : endedAt + StaleAfter < t

isStale(state, t) ==
  /\ state.phase = "ended"
  /\ state.endedAt # Undefined
  /\ \E endedAt \in state.endedAt : endedAt + StaleAfter < t

unlink(d, filePath) == [d EXCEPT ![filePath] = NoFile]

\* fs.writeFile: opens the file, creating or truncating it, ...
openTruncated(d, filePath, content) ==
  [d EXCEPT ![filePath] = [doc |-> content, len |-> 0, there |-> TRUE]]
\* ... and writes the content piece by piece
writePiece(d, filePath) == [d EXCEPT ![filePath].len = @ + 1]
RECURSIVE writeAll(_, _)
writeAll(d, filePath) ==
  IF d[filePath].len < DocLen THEN writeAll(writePiece(d, filePath), filePath) ELSE d
writeFile(d, filePath, content) == writeAll(openTruncated(d, filePath, content), filePath)

\* fs.rename: the new name holds the whole file in one step
rename(d, from, to) ==
  IF from = to THEN d ELSE [d EXCEPT ![to] = d[from], ![from] = NoFile]

atomicWriteFile(d, pid, filePath, content) ==
  rename(writeFile(d, tmpPath(filePath, pid), content), tmpPath(filePath, pid), filePath)

load(d, sessionID, t) ==
  LET filePath == sessionFilePath(sessionID)
      state == parseSessionFile(d, filePath) IN
  IF state = NoState THEN [state |-> NoState, disk |-> d]
  ELSE IF isStale(state, t) THEN [state |-> NoState, disk |-> unlink(d, filePath)]
  ELSE [state |-> state, disk |-> d]

\* readdir and the loop over the files that end in .json
list(d, t) ==
  LET files == {p \in Paths : p[1] = "json" /\ d[p].there}
      parsed == {p \in files : parseSessionFile(d, p) # NoState}
      stale == {p \in parsed : isStale(parseSessionFile(d, p), t)} IN
  [states |-> {parseSessionFile(d, p) : p \in parsed \ stale},
   disk |-> [p \in Paths |-> IF p \in stale THEN NoFile ELSE d[p]]]

save(d, pid, state) ==
  atomicWriteFile(d, pid, sessionFilePath(state.sessionID), serializeSessionState(state))

delete(d, sessionID) == unlink(d, sessionFilePath(sessionID))
exists(d, sessionID) == d[sessionFilePath(sessionID)].there

\* what a store call answered
NoResult == [op |-> "none", id |-> "none", state |-> NoState, states |-> {},
             exists |-> FALSE]
Idle == [pc |-> "idle", state |-> NoState]

\* store calls that run alone, from one process
StoreSave(id, state) ==
  /\ disk' = save(disk, "p1", state)
  /\ saved' = [saved EXCEPT ![id] = state]
  /\ got' = [NoResult EXCEPT !.op = "save", !.id = id, !.state = state]
  /\ UNCHANGED <<now, procs, repoVars, call>>

StoreLoad(id) ==
  /\ disk' = load(disk, id, now).disk
  /\ got' = [NoResult EXCEPT !.op = "load", !.id = id, !.state = load(disk, id, now).state]
  /\ UNCHANGED <<now, procs, saved, repoVars, call>>

StoreList ==
  /\ disk' = list(disk, now).disk
  /\ got' = [NoResult EXCEPT !.op = "list", !.states = list(disk, now).states]
  /\ UNCHANGED <<now, procs, saved, repoVars, call>>

StoreDelete(id) ==
  /\ disk' = delete(disk, id)
  /\ saved' = [saved EXCEPT ![id] = NoState]
  /\ got' = [NoResult EXCEPT !.op = "delete", !.id = id]
  /\ UNCHANGED <<now, procs, repoVars, call>>

StoreExists(id) ==
  /\ got' = [NoResult EXCEPT !.op = "exists", !.id = id, !.exists = exists(disk, id)]
  /\ UNCHANGED <<disk, now, procs, saved, repoVars, call>>

Tick ==
  /\ now < MaxNow
  /\ now' = now + 1
  /\ UNCHANGED <<disk, got, procs, saved, repoVars, call>>

InitStore ==
  /\ disk = NoDisk
  /\ now = 0
  /\ got = NoResult
  /\ procs = [p \in Pids |-> Idle]
  /\ saved = [id \in Sessions |-> NoState]

NextStore ==
  \/ \E id \in Sessions : \E state \in StoreStates(id) : StoreSave(id, state)
  \/ \E id \in Sessions : StoreLoad(id) \/ StoreDelete(id) \/ StoreExists(id)
  \/ StoreList
  \/ Tick

\* save calls of two processes, step by step, with load and list between
\* the steps
RaceStates(id) == {s \in StoreStates(id) : s.phase = "active" /\ s.endedAt = Undefined}

SaveBegin(p, id, state) ==
  /\ procs[p].pc = "idle"
  /\ procs' = [procs EXCEPT ![p] = [pc |-> "write", state |-> state]]
  /\ disk' = openTruncated(disk, tmpPath(sessionFilePath(id), p), serializeSessionState(state))
  /\ UNCHANGED <<now, got, saved, repoVars, call>>

SaveWrite(p) ==
  LET path == tmpPath(sessionFilePath(procs[p].state.sessionID), p) IN
  /\ procs[p].pc = "write"
  /\ disk[path].there /\ disk[path].len < DocLen
  /\ disk' = writePiece(disk, path)
  /\ UNCHANGED <<now, got, procs, saved, repoVars, call>>

SaveRename(p) ==
  LET filePath == sessionFilePath(procs[p].state.sessionID)
      path == tmpPath(filePath, p) IN
  /\ procs[p].pc = "write"
  /\ disk[path].there /\ disk[path].len = DocLen
  /\ disk' = rename(disk, path, filePath)
  /\ saved' = [saved EXCEPT ![procs[p].state.sessionID] = procs[p].state]
  /\ procs' = [procs EXCEPT ![p] = Idle]
  /\ UNCHANGED <<now, got, repoVars, call>>

NextStoreRace ==
  \/ \E p \in Pids, id \in Sessions : \E state \in RaceStates(id) : SaveBegin(p, id, state)
  \/ \E p \in Pids : SaveWrite(p) \/ SaveRename(p)
  \/ \E id \in Sessions : StoreLoad(id)
  \/ StoreList

\* ------------------------------------------------------------------- spec
\* the repository with one commit, no session and no engine ref
InitRepo ==
  /\ commits = <<[parent |-> 0, cp |-> 0, short |-> 1,
                  tree |-> [files |-> [f \in Files |-> IF f = "a" THEN 1 ELSE 0],
                            dirs |-> NoDirs]]>>
  /\ head = 1
  /\ work = [f \in Files |-> IF f = "a" THEN 1 ELSE 0]
  /\ phase = "idle"
  /\ staged = {}
  /\ source = "message"
  /\ msg = 0
  /\ refs = [r \in RefNames |-> 0]
  /\ objs = <<>>
  /\ sessions = [s \in Sessions |-> NoSession]
  /\ cpLog = <<>>
  /\ cpTip = 0
  /\ issued = 0
  /\ last = Other
  /\ writers = [w \in Writers |-> NoWriter]
  /\ file = <<>>
  /\ hook = NoHook
  /\ remote = 0
  /\ cwd = "wt1"
  /\ parked = [work |-> [f \in Files |-> IF f = "a" THEN 1 ELSE 0], head |-> 1]
  /\ metaTree = {}
  /\ settings = NoSettings

Init ==
  /\ InitRepo
  /\ call = NoCall
  /\ InitStore
  /\ hooksDir = NoHooks

SpecStore == Init /\ [][NextStore]_vars
SpecStoreRace == Init /\ [][NextStoreRace]_vars

UserOrStep ==
  \/ \E f \in Files : \E v \in Contents(f) : Edit(f, v)
  \/ \E sid \in Sessions, D \in SUBSET Files, ts \in 0..MaxClock : saveStep(sid, D, ts)
  \/ \E S \in SUBSET Files, src \in {"message", "commit"} : prepareCommitMsg(S, src)
  \/ GitCommitCreate
  \/ \E tree \in {HeadTree} \cup {objs[i].tree : i \in 1..Len(objs)},
        short \in NewShorts : MoveHead(tree, short)

\* the analyzer comparing the contents the shadow tip holds
Next == UserOrStep \/ postCommit(FALSE, {})

Spec == Init /\ [][Next]_vars

\* the analyzer's comparison of the shadow tip with the commit left open
NextOpen ==
  \/ UserOrStep
  \/ \E differs \in SUBSET Files : postCommit(TRUE, differs)

SpecOpen == Init /\ [][NextOpen]_vars

\* sessions whose steps are those of subagents as well
NextTasks ==
  \/ \E f \in Files : \E v \in Contents(f) : Edit(f, v)
  \/ \E D \in SUBSET Files, ts \in 0..MaxClock : saveStep("s2", D, ts)
  \/ \E sid \in Sessions, D \in SUBSET Files, ts \in 0..MaxClock :
       saveTaskStep(sid, D, ts)
  \/ \E S \in SUBSET Files : prepareCommitMsg(S, "message")
  \/ GitCommitCreate
  \/ postCommit(FALSE, {})

SpecTasks == Init /\ [][NextTasks]_vars

\* sessions stepping while HEAD moves, no commit prefix shared
NextMigrate ==
  \/ \E f \in Files : \E v \in Contents(f) : Edit(f, v)
  \/ \E sid \in Sessions, D \in SUBSET Files, ts \in 0..MaxClock :
       saveStepWithin(sid, D, ts, MaxMigrateSteps)
  \/ \E tree \in {HeadTree} \cup {objs[i].tree : i \in 1..Len(objs)} :
       MoveHead(tree, OwnShort)

SpecMigrate == Init /\ [][NextMigrate]_vars

\* the same, with the promotions that fail: writeCommitted raises when a git
\* command of its fails (the disk is full, the object store is locked, another
\* writer has created the metadata branch in between)
postCommitFailing(differs, failing) ==
  /\ postCommitRun(TRUE, differs, failing)
  /\ UNCHANGED <<writers, hookVars, sideVars>>

\* HEAD moves by the user's commits only
NextFailing ==
  \/ \E f \in Files : \E v \in Contents(f) : Edit(f, v)
  \/ \E sid \in Sessions, D \in SUBSET Files, ts \in 0..MaxClock : saveStep(sid, D, ts)
  \/ \E S \in SUBSET Files, src \in {"message", "commit"} : prepareCommitMsg(S, src)
  \/ GitCommitCreate
  \/ \E differs \in SUBSET Files, failing \in SUBSET Sessions :
       postCommitFailing(differs, failing)

SpecFailing == Init /\ [][NextFailing]_vars

\* --------------------------------------------- writeCommitted, call by call
\* The git commands of writeCommitted, one at a time, for callers running at
\* once (hooks of two worktrees, or of two terminals).
WriterOptions(w) ==
  [checkpointID |-> writers[w].checkpointID, sessionID |-> writers[w].sessionID,
   checkpointsCount |-> 1, filesTouched |-> {}, tokenUsage |-> 0,
   transcriptIdentifierAtStart |-> 0]

InFlight == {w \in Writers : writers[w].pc \notin {"idle", "done", "failed"}}

\* a call starts for checkpoint id and session sid
WcCall(w, id, sid) ==
  /\ writers[w].pc \in {"idle", "done", "failed"}
  /\ Len(cpLog) + Cardinality(InFlight) < MaxWrites
  /\ writers' = [writers EXCEPT ![w] =
       [NoWriter EXCEPT !.pc = "resolve", !.checkpointID = id, !.sessionID = sid]]
  /\ UNCHANGED <<engineVars, cpLog, cpTip>>

\* refExists, rev-parse and getTreeHash of the branch
WcResolve(w) ==
  /\ writers[w].pc = "resolve"
  /\ writers' = [writers EXCEPT ![w].pc = "shard",
                                ![w].branchExists = cpTip # 0,
                                ![w].parentHash = cpTip]
  /\ UNCHANGED <<engineVars, cpLog, cpTip>>

\* lsTree of the id's shard on the branch
WcListShard(w) ==
  /\ writers[w].pc = "shard"
  /\ writers' = [writers EXCEPT ![w].pc = "root",
                                ![w].shardEntries =
                                   lsTree(cpLog, cpTip, writers[w].branchExists)]
  /\ UNCHANGED <<engineVars, cpLog, cpTip>>

\* lsTree of the branch's root
WcListRoot(w) ==
  /\ writers[w].pc = "root"
  /\ writers' = [writers EXCEPT ![w].pc = "commit",
                                ![w].rootEntries =
                                   lsTree(cpLog, cpTip, writers[w].branchExists)]
  /\ UNCHANGED <<engineVars, cpLog, cpTip>>

\* mktree of the root and commitTree on the parent read at the start
WcCommitTree(w) ==
  /\ writers[w].pc = "commit"
  /\ cpLog' = Append(cpLog,
       [parent |-> writers[w].parentHash,
        root |-> ComposeRoot(writers[w].shardEntries, writers[w].rootEntries,
                             writers[w].checkpointID,
                             CommittedMetadata(WriterOptions(w))),
        id |-> writers[w].checkpointID])
  /\ writers' = [writers EXCEPT ![w].pc = "update", ![w].commitHash = Len(cpLog) + 1]
  /\ UNCHANGED <<engineVars, cpTip>>

\* updateRef when the call found the branch; else git branch, which fails
\* when the branch exists by now
WcUpdateRef(w) ==
  /\ writers[w].pc = "update"
  /\ IF writers[w].branchExists \/ cpTip = 0
     THEN /\ cpTip' = writers[w].commitHash
          /\ writers' = [writers EXCEPT ![w].pc = "done"]
     ELSE /\ writers' = [writers EXCEPT ![w].pc = "failed"]
          /\ UNCHANGED cpTip
  /\ UNCHANGED <<engineVars, cpLog>>

NextWriters ==
  \/ \E w \in Writers, id \in Ids, sid \in Sessions : WcCall(w, id, sid)
  \/ \E w \in Writers : WcResolve(w)
  \/ \E w \in Writers : WcListShard(w)
  \/ \E w \in Writers : WcListRoot(w)
  \/ \E w \in Writers : WcCommitTree(w)
  \/ \E w \in Writers : WcUpdateRef(w)

SpecWriters == Init /\ [][NextWriters]_vars

\* ensureMetadataBranch, run by the setup while no promotion is under way: the
\* branch is created with a commit of the empty tree when it does not exist
ensureMetadataBranch ==
  /\ InFlight = {}
  /\ Len(cpLog) < MaxWrites
  /\ cpTip = 0
  /\ cpLog' = Append(cpLog, [parent |-> 0, root |-> EmptyRoot, id |-> 0])
  /\ cpTip' = Len(cpLog) + 1
  /\ UNCHANGED <<engineVars, writers>>

\* git log of the metadata branch, at most limit commits from the tip
RECURSIVE logCommits(_, _, _)
logCommits(log, tip, limit) ==
  IF tip = 0 \/ limit = 0 THEN {}
  ELSE {tip} \cup logCommits(log, log[tip].parent, limit - 1)

\* listCommitted(limit): the checkpoints named by the subjects of the logged
\* commits that readCommitted finds
ListLimit == 20
listCommitted(log, tip, limit) ==
  {log[c].id : c \in logCommits(log, tip, limit)}
    \cap {id \in Ids : readCommitted(log, tip, id) # NoCheckpoint}

\* promotions one after the other, the branch made by the setup or by the first
NextPromote ==
  \/ ensureMetadataBranch
  \/ \E id \in Ids, sid \in Sessions : WcCall("w1", id, sid)
  \/ WcResolve("w1")
  \/ WcListShard("w1")
  \/ WcListRoot("w1")
  \/ WcCommitTree("w1")
  \/ WcUpdateRef("w1")

SpecPromote == Init /\ [][NextPromote]_vars

\* -------------------------------------------------------- the message file
\* The message file is held as the lines of its content (content.split('\n')).
\* A line is a sequence of pieces, a piece being a run of characters the hooks
\* treat alike:
\*   " "   white space            "#"   the comment character
\*   "x"   any other text         "K"   the text `Runlog-Checkpoint:`
\*   "id"  twelve hex digits, the checkpoint id `id`
\*   "nl"  the line break, which only the content as a whole holds
Ch(c) == [c |-> c, id |-> 0]
Hex(n) == [c |-> "id", id |-> n]
CheckpointTrailerKey == Ch("K")

IsSpace(p) == p.c \in {" ", "nl"}

RECURSIVE trimStart(_)
trimStart(line) ==
  IF line # <<>> /\ IsSpace(Head(line)) THEN trimStart(Tail(line)) ELSE line

RECURSIVE trimEnd(_)
trimEnd(line) ==
  IF line # <<>> /\ IsSpace(line[Len(line)])
  THEN trimEnd(SubSeq(line, 1, Len(line) - 1)) ELSE line

\* String.prototype.trim
trim(line) == trimEnd(trimStart(line))

\* String.prototype.startsWith, for a one-piece prefix
startsWith(line, p) == line # <<>> /\ Head(line) = p

\* lines.join('\n'): the content, line breaks included
RECURSIVE join(_)
join(lines) ==
  IF lines = <<>> THEN <<>>
  ELSE IF Len(lines) = 1 THEN lines[1]
  ELSE lines[1] \o <<Ch("nl")>> \o join(Tail(lines))

\* content.split('\n'): the lines of a content; the empty content has one
\* empty line
RECURSIVE split(_)
split(content) ==
  IF \A i \in 1..Len(content) : content[i] # Ch("nl") THEN <<content>>
  ELSE LET i == CHOOSE k \in 1..Len(content) :
                  /\ content[k] = Ch("nl")
                  /\ \A j \in 1..(k - 1) : content[j] # Ch("nl")
       IN <<SubSeq(content, 1, i - 1)>> \o split(SubSeq(content, i + 1, Len(content)))

\* checkpointTrailerRegex, Runlog-Checkpoint:\s*([0-9a-f]{12})(?:\s|$), matched
\* at piece i of the content
TrailerMatchAt(content, i) ==
  /\ content[i] = CheckpointTrailerKey
  /\ \E j \in (i + 1)..Len(content) :
       /\ \A k \in (i + 1)..(j - 1) : IsSpace(content[k])
       /\ content[j].c = "id"
       /\ j = Len(content) \/ IsSpace(content[j + 1])

\* the id captured by the match at piece i
TrailerMatchID(content, i) ==
  LET j == CHOOSE k \in (i + 1)..Len(content) :
             content[k].c = "id" /\ \A m \in (i + 1)..(k - 1) : IsSpace(content[m])
  IN content[j].id

\* parseCheckpoint: the first match in the content, and whether its id is one
parseCheckpoint(commitMessage) ==
  LET matches == {i \in 1..Len(commitMessage) : TrailerMatchAt(commitMessage, i)}
  IN IF matches # {}
     THEN LET first == CHOOSE i \in matches : \A k \in matches : i <= k
              idStr == TrailerMatchID(commitMessage, first)
          IN IF validateCheckpointID(idStr)
             THEN [cpID |-> idStr, found |-> TRUE]
             ELSE [cpID |-> 0, found |-> FALSE]
     ELSE [cpID |-> 0, found |-> FALSE]

\* `${CheckpointTrailerKey}: ${cpID}`
TrailerLine(cpID) == <<CheckpointTrailerKey, Ch(" "), Hex(cpID)>>

\* before.pop() while the last line is blank
RECURSIVE popBlank(_)
popBlank(before) ==
  IF before # <<>> /\ trim(before[Len(before)]) = <<>>
  THEN popBlank(SubSeq(before, 1, Len(before) - 1)) ELSE before

\* injectCheckpointTrailer leaving the blank lines before the trailer in place
injectCheckpointTrailerKeepingBlanks(message, trailer) ==
  LET lines == split(message)
      comments == {i \in 1..Len(lines) : startsWith(lines[i], Ch("#"))}
      insertIndex == IF comments = {} THEN Len(lines) + 1
                     ELSE CHOOSE i \in comments : \A k \in comments : i <= k
      before == SubSeq(lines, 1, insertIndex - 1)
      after == SubSeq(lines, insertIndex, Len(lines))
  IN join(before \o <<<<>>, trailer, <<>>>> \o after)

\* injectCheckpointTrailer: the trailer goes before the first line that starts
\* with `#`, after the lines before it less their trailing blank lines
injectCheckpointTrailer(message, trailer) ==
  LET lines == split(message)
      comments == {i \in 1..Len(lines) : startsWith(lines[i], Ch("#"))}
      insertIndex == IF comments = {} THEN Len(lines) + 1
                     ELSE CHOOSE i \in comments : \A k \in comments : i <= k
      before == popBlank(SubSeq(lines, 1, insertIndex - 1))
      after == SubSeq(lines, insertIndex, Len(lines))
  IN join(before \o <<<<>>, trailer, <<>>>> \o after)

\* hasUserContent without its trailer test: a trailer line counts as content
hasUserContentCountingTrailers(message) ==
  \E i \in 1..Len(split(message)) :
    LET trimmed == trim(split(message)[i]) IN
    /\ trimmed # <<>>
    /\ ~startsWith(trimmed, Ch("#"))

\* hasUserContent: some line is neither blank, nor a comment, nor starts with
\* the trailer key
hasUserContent(message) ==
  \E i \in 1..Len(split(message)) :
    LET trimmed == trim(split(message)[i]) IN
    /\ trimmed # <<>>
    /\ ~startsWith(trimmed, Ch("#"))
    /\ ~startsWith(trimmed, CheckpointTrailerKey)

NotTrailer(line) == ~startsWith(trim(line), CheckpointTrailerKey)

\* stripCheckpointTrailer: the lines that do not start with the trailer key
stripCheckpointTrailer(message) == join(SelectSeq(split(message), NotTrailer))

\* ---------------------------------------------------- the hook handlers
\* commitMsg on the content of the message file; readable: readFileSync
\* succeeds.  A failing write is swallowed as well and leaves the file alone.
commitMsg(content, readable) ==
  IF ~readable THEN [content |-> content, stripped |-> FALSE]
  ELSE IF ~parseCheckpoint(content).found THEN [content |-> content, stripped |-> FALSE]
  ELSE IF ~hasUserContent(content)
       THEN [content |-> stripCheckpointTrailer(content), stripped |-> TRUE]
       ELSE [content |-> content, stripped |-> FALSE]

\* whether prepareCommitMsg, its loop having stopped at session sid, calls
\* generateID
GeneratesID(sid) == ~validateCheckpointID(sessions[sid].lastCheckpointID)

\* prepareCommitMsg without its return on a merge
PreparedMessageOnMerge(message, src, stagedFiles, sid, generated) ==
  IF src = "commit" /\ parseCheckpoint(message).found THEN message
  ELSE IF findSessionsForCommit(head) = {} \/ stagedFiles = {} THEN message
  ELSE IF sid \notin Overlapping(stagedFiles) THEN message
  ELSE LET overlappingSession == sessions[sid]
           cpID == IF validateCheckpointID(overlappingSession.lastCheckpointID)
                   THEN overlappingSession.lastCheckpointID ELSE generated
       IN injectCheckpointTrailer(message, TrailerLine(cpID))

\* prepareCommitMsg on the content of the message file, its loop stopping at
\* the overlapping session sid ("none": no session overlaps); generated is the
\* id generateID would return
PreparedMessage(message, src, stagedFiles, sid, generated) ==
  IF src = "merge" THEN message
  ELSE IF src = "commit" /\ parseCheckpoint(message).found THEN message
  ELSE IF findSessionsForCommit(head) = {} \/ stagedFiles = {} THEN message
  ELSE IF sid \notin Overlapping(stagedFiles) THEN message
  ELSE LET overlappingSession == sessions[sid]
           cpID == IF validateCheckpointID(overlappingSession.lastCheckpointID)
                   THEN overlappingSession.lastCheckpointID ELSE generated
       IN injectCheckpointTrailer(message, TrailerLine(cpID))

\* pushBranch(remote, branch, false): git push; fails: the push is rejected
\* or the remote cannot be reached, and git() throws
pushBranch(rem, tip, fails) ==
  IF fails THEN [remote |-> rem, threw |-> TRUE] ELSE [remote |-> tip, threw |-> FALSE]

\* prePush without its try/catch around pushBranch
prePushUncaught(tip, rem, fails) ==
  IF tip = 0 THEN [remote |-> rem, raised |-> FALSE, pushed |-> "no branch"]
  ELSE LET push == pushBranch(rem, tip, fails) IN
       [remote |-> push.remote, raised |-> push.threw,
        pushed |-> IF push.threw THEN "failed" ELSE "done"]

\* prePush: nothing without the metadata branch; a failing push is caught
prePush(tip, rem, fails) ==
  IF tip = 0 THEN [remote |-> rem, raised |-> FALSE, pushed |-> "no branch"]
  ELSE LET push == pushBranch(rem, tip, fails) IN
       [remote |-> push.remote, raised |-> FALSE,
        pushed |-> IF push.threw THEN "failed" ELSE "done"]

\* ------------------------------------------------- the installed git hooks
\* How a run of `sessionlog hooks git <hook>` goes:
\*   "ok"           cmdHooksGit reaches the strategy's handler
\*   "disabled"     isEnabled() is false
\*   "worktree"     git rev-parse --show-toplevel fails in loadProjectSettings
\*   "sessionRepo"  sessionRepoPath is set and initSessionRepo fails
\*   "unreadable"   the handler is reached and the message file cannot be read
HookRuns == {"ok", "disabled", "worktree", "sessionRepo", "unreadable"}

\* cmdHooksGit calls the strategy's handler
ReachesHandler(how) == how \in {"ok", "unreadable"}

\* cmdHooksGit rejects: isEnabled, loadSettings or initSessionRepo throws, or
\* the handler does (raised)
Rejects(how, raised) == how \in {"worktree", "sessionRepo"} \/ raised

\* main().catch: process.exit(1)
CliExit(how, raised) == IF Rejects(how, raised) THEN 1 ELSE 0

\* generateHookScript: the exit status of the installed script, the command
\* having exited with cliExit
ScriptExit(name, cliExit) ==
  IF name = "commit-msg"
  THEN IF cliExit # 0 THEN 1 ELSE 0     \* <command> || exit 1
  ELSE 0                                \* <command> 2>/dev/null || true

\* the record of a hook run
HookRun(name, how, stripped, skip, raised, pushed) ==
  [name |-> name, how |-> how, stripped |-> stripped, skip |-> skip,
   raised |-> raised, pushed |-> pushed, cliExit |-> CliExit(how, raised),
   exit |-> ScriptExit(name, CliExit(how, raised)),
   runs |-> hook.runs + 1, clean |-> hook.clean]

\* a checkpoint trailer line: the trailer key and an id, and nothing else but
\* white space
IsTrailerLine(line) ==
  /\ startsWith(trim(line), CheckpointTrailerKey)
  /\ parseCheckpoint(trim(line)).found
  /\ \A i \in 2..Len(trim(line)) : trim(line)[i].c \in {" ", "id"}
  /\ Cardinality({i \in 1..Len(trim(line)) : trim(line)[i].c = "id"}) = 1

TrailerLines(content) ==
  {i \in 1..Len(split(content)) : IsTrailerLine(split(content)[i])}

\* the message files git or the user hands to the hooks, line by line
Templates ==
  {join(lines) : lines \in
     {<<<<>>>>,                                          \* the empty file
      <<<<Ch("x")>>>>,                                   \* a subject
      <<<<>>, <<Ch("#"), Ch("x")>>>>,                    \* git's template
      <<<<Ch("x")>>, <<Ch("#"), Ch("x")>>>>,
      <<<<Ch(" "), Ch("#")>>, <<Ch(" ")>>>>,             \* an indented `#`
      <<TrailerLine(1)>>,
      <<<<Ch("x")>>, TrailerLine(1)>>,
      <<TrailerLine(1), <<Ch("#"), Ch("x")>>>>,
      <<<<Ch(" ")>> \o TrailerLine(1), <<Ch(" "), Ch("#")>>>>,
      <<<<Ch("#"), Ch(" ")>> \o TrailerLine(1)>>,       \* a trailer commented out
      <<<<CheckpointTrailerKey, Ch(" "), Ch("x")>>>>,    \* the key, and no id
      <<<<CheckpointTrailerKey, Ch(" "), Ch("x")>>, <<Ch("#"), Ch(" ")>> \o TrailerLine(1)>>,
      <<<<Ch("x"), Ch(" ")>> \o TrailerLine(1)>>,       \* a trailer inside a sentence
      <<<<CheckpointTrailerKey>>, <<Hex(1)>>>>}}         \* the key and the id on two lines

\* `git commit` (src "message"), `git commit --amend` or `-c <commit>` (src
\* "commit") or the commit of a merge (src "merge") starts: git writes the
\* message file
BeginCommit(S, src, template) ==
  /\ phase = "idle"
  /\ Len(commits) < 1 + MaxHookCommits
  /\ hook.name = "none"
  /\ S \subseteq Dirty
  /\ src = "commit" \/ S # {}
  /\ phase' = "message"
  /\ staged' = S
  /\ source' = src
  /\ file' = template
  /\ hook' = [NoHook EXCEPT !.clean = (~parseCheckpoint(template).found
                                        /\ TrailerLines(template) = {})]
  /\ last' = Other
  /\ UNCHANGED <<commits, head, work, msg, refs, objs, sessions, cpLog, cpTip,
                 issued, writers, sideVars, remote>>

\* the installed prepare-commit-msg hook: the script, cmdHooksGit and
\* prepareCommitMsg
PrepareCommitMsgHook(how) ==
  /\ phase = "message"
  /\ hook.runs < MaxHookRuns
  /\ \E sid \in Sessions \cup {"none"} :
       LET prepared == PreparedMessage(file, source, staged, sid, issued + 1) IN
       /\ IF Overlapping(staged) = {} THEN sid = "none" ELSE sid \in Overlapping(staged)
       /\ IF how = "ok" /\ prepared # file
          THEN /\ file' = prepared
               /\ IF GeneratesID(sid)
                  THEN issued < MaxCommits /\ issued' = issued + 1
                  ELSE UNCHANGED issued
          ELSE UNCHANGED <<file, issued>>
  /\ hook' = HookRun("prepare-commit-msg", how, FALSE, FALSE,
                     how = "unreadable", "none")   \* readFileSync outside any try
  /\ last' = Other
  /\ UNCHANGED <<commits, head, work, phase, staged, source, msg, refs, objs,
                 sessions, cpLog, cpTip, writers, sideVars, remote>>

\* the installed commit-msg hook: the script, cmdHooksGit and commitMsg
CommitMsgHook(how) ==
  /\ phase = "message"
  /\ hook.runs < MaxHookRuns
  /\ LET result == IF ReachesHandler(how) THEN commitMsg(file, how # "unreadable")
                   ELSE [content |-> file, stripped |-> FALSE] IN
     /\ file' = result.content
     /\ hook' = HookRun("commit-msg", how, result.stripped, FALSE, FALSE, "none")
  /\ last' = Other
  /\ UNCHANGED <<commits, head, work, phase, staged, source, msg, refs, objs,
                 sessions, cpLog, cpTip, issued, writers, sideVars, remote>>

\* git's cleanup of the message: lines that start with `#` go
NotComment(line) == ~startsWith(line, Ch("#"))
GitCleanup(content) == join(SelectSeq(split(content), NotComment))

\* git after the commit-msg hook: the commit is given up when the hook failed
\* or the message is empty (and the run ends there), and goes on with the
\* message's trailer otherwise
GitReadMessage ==
  /\ phase = "message"
  /\ hook.name = "commit-msg"
  /\ IF hook.exit # 0 \/ trim(GitCleanup(file)) = <<>>
     THEN phase' = "aborted" /\ staged' = {} /\ UNCHANGED msg
     ELSE phase' = "ready" /\ msg' = parseCheckpoint(GitCleanup(file)).cpID /\ UNCHANGED staged
  /\ file' = <<>>
  /\ hook' = NoHook
  /\ last' = Other
  /\ UNCHANGED <<commits, head, work, source, refs, objs, sessions, cpLog, cpTip,
                 issued, writers, sideVars, remote>>

\* the installed post-commit hook: the script, cmdHooksGit and postCommit
PostCommitHook(how) ==
  /\ IF how = "ok"
     THEN postCommitSteps(FALSE, {})
     ELSE /\ phase = "post"
          /\ phase' = "idle"
          /\ last' = Other
          /\ UNCHANGED <<commits, head, work, staged, source, msg, refs, objs,
                         sessions, cpLog, cpTip, issued>>
  /\ hook' = HookRun("post-commit", how, FALSE, FALSE, FALSE, "none")
  /\ UNCHANGED <<writers, sideVars, file, remote>>

\* the installed pre-push hook, run by `git push <remote>`: the script,
\* cmdHooksGit and prePush; skip is the effective skipPushSessions setting,
\* which loadSettings returns and nothing reads
PrePushHook(how, skip, fails) ==
  /\ phase = "idle"
  /\ hook.runs < MaxPushes
  /\ LET result == IF how = "ok" THEN prePush(cpTip, remote, fails)
                   ELSE [remote |-> remote, raised |-> FALSE, pushed |-> "none"] IN
     /\ remote' = result.remote
     /\ hook' = [HookRun("pre-push", how, FALSE, skip, result.raised, result.pushed)
                   EXCEPT !.clean = FALSE]
  /\ last' = Other
  /\ UNCHANGED <<commits, head, work, phase, staged, source, msg, refs, objs,
                 sessions, cpLog, cpTip, issued, writers, sideVars, file>>

\* no commit has been made with the installed hooks
BeforeCommit == Len(commits) < 1 + MaxHookCommits

\* the hooks of a commit, with the steps that come before
NextHooks ==
  \/ \E f \in Files : \E v \in Contents(f) : BeforeCommit /\ Edit(f, v)
  \/ \E D \in SUBSET Files, ts \in 0..MaxClock : BeforeCommit /\ saveStep("s1", D, ts)
  \/ \E S \in SUBSET Files, src \in {"message", "commit", "merge"},
        template \in Templates : BeginCommit(S, src, template)
  \/ \E how \in HookRuns : PrepareCommitMsgHook(how)
  \/ \E how \in HookRuns : CommitMsgHook(how)
  \/ GitReadMessage
  \/ GitCommitCreate
  \/ \E how \in HookRuns \ {"unreadable"} : PostCommitHook(how)
  \/ \E how \in HookRuns \ {"unreadable"}, skip \in BOOLEAN, fails \in BOOLEAN :
       PrePushHook(how, skip, fails)

SpecHooks == Init /\ [][NextHooks]_vars

\* one writer promoting, and the pushes of the user
NextPush ==
  \/ \E id \in Ids, sid \in Sessions : WcCall("w1", id, sid)
  \/ WcResolve("w1")
  \/ WcListShard("w1")
  \/ WcListRoot("w1")
  \/ WcCommitTree("w1")
  \/ WcUpdateRef("w1")
  \/ \E how \in HookRuns \ {"unreadable"}, skip \in BOOLEAN, fails \in BOOLEAN :
       PrePushHook(how, skip, fails)

SpecPush == Init /\ [][NextPush]_vars

\* ------------------------------------------------------------ branch names
\* A name is a sequence of pieces: a literal piece of text, or a run of n
\* lowercase hex digits (v tells two runs of the same length apart).
Lit(v) == [c |-> "lit", n |-> 0, v |-> v]
HexRun(n, v) == [c |-> "hex", n |-> n, v |-> v]

SHADOW_BRANCH_PREFIX == <<Lit("entire/")>>
CHECKPOINTS_BRANCH == <<Lit("entire/"), Lit("checkpoints/v1")>>
SHADOW_BRANCH_HASH_LENGTH == 7
WORKTREE_ID_HASH_LENGTH == 6

\* s.slice(0, k) of a string of hex digits
RECURSIVE slice(_, _)
slice(s, k) ==
  IF s = <<>> \/ k = 0 THEN <<>>
  ELSE IF s[1].n <= k THEN <<s[1]>> \o slice(Tail(s), k - s[1].n)
  ELSE <<HexRun(k, s[1].v)>>

\* s.slice(k) of a string of hex digits
RECURSIVE sliceFrom(_, _)
sliceFrom(s, k) ==
  IF s = <<>> \/ k = 0 THEN s
  ELSE IF s[1].n <= k THEN sliceFrom(Tail(s), k - s[1].n)
  ELSE <<HexRun(s[1].n - k, s[1].v)>> \o Tail(s)

\* the hex digest of sha256, 64 digits, one digest per worktree id
sha256(worktreeID) == <<HexRun(64, worktreeID)>>
hashWorktreeID(worktreeID) == slice(sha256(worktreeID), WORKTREE_ID_HASH_LENGTH)

\* a worktree id is falsy when there is none or it is the empty string
Truthy(worktreeID) == worktreeID \notin {NoWorktree, ""}

\* the same with one hex digit less of the base commit
shadowBranchNameForCommitShort(baseCommit, worktreeID) ==
  LET hash == slice(baseCommit, SHADOW_BRANCH_HASH_LENGTH - 1) IN
  IF Truthy(worktreeID)
  THEN SHADOW_BRANCH_PREFIX \o hash \o <<Lit("-")>> \o hashWorktreeID(worktreeID)
  ELSE SHADOW_BRANCH_PREFIX \o hash

shadowBranchNameForCommit(baseCommit, worktreeID) ==
  LET hash == slice(baseCommit, SHADOW_BRANCH_HASH_LENGTH) IN
  IF Truthy(worktreeID)
  THEN SHADOW_BRANCH_PREFIX \o hash \o <<Lit("-")>> \o hashWorktreeID(worktreeID)
  ELSE SHADOW_BRANCH_PREFIX \o hash

\* /^entire\/[0-9a-f]{7,}(-[0-9a-f]{6,})?$/
SHADOW_BRANCH_PATTERN(name) ==
  /\ Len(name) \in {2, 4}
  /\ name[1] = Lit("entire/")
  /\ name[2].c = "hex" /\ name[2].n >= SHADOW_BRANCH_HASH_LENGTH
  /\ Len(name) = 4 =>
       /\ name[3] = Lit("-")
       /\ name[4].c = "hex" /\ name[4].n >= WORKTREE_ID_HASH_LENGTH

isShadowBranch(branchName) ==
  IF branchName = CHECKPOINTS_BRANCH THEN FALSE ELSE SHADOW_BRANCH_PATTERN(branchName)

\* the branch name of a ref the engine writes: what follows the first
\* "refs/heads/" of the full ref name
BranchName(r) ==
  IF r[1] = Heads
  THEN SHADOW_BRANCH_PREFIX \o <<HexRun(SHADOW_BRANCH_HASH_LENGTH, r[2])>>
  ELSE <<Lit("refs/heads/")>> \o SHADOW_BRANCH_PREFIX
         \o <<HexRun(SHADOW_BRANCH_HASH_LENGTH, r[2])>>

\* ---------------------------------------------------------- two worktrees
\* Each session runs in a worktree of its own, both checked out at the same
\* commit; the engine is started in one worktree at a time.
WorktreeOf(sid) == IF sid = "s1" THEN "wt1" ELSE "wt2"

\* the next engine call is made from the other worktree
SwitchWorktree ==
  /\ cwd' = CHOOSE w \in Worktrees : w # cwd
  /\ work' = parked.work
  /\ head' = parked.head
  /\ parked' = [work |-> work, head |-> head]
  /\ UNCHANGED <<commits, phase, staged, source, msg, refs, objs, sessions, cpLog,
                 cpTip, issued, last, writers, hookVars, call, storeVars,
                 metaTree, hooksDir, settings>>

NextWorktrees ==
  \/ \E f \in Files : \E v \in Contents(f) : Edit(f, v)
  \/ \E sid \in Sessions, D \in SUBSET Files, ts \in 0..MaxClock :
       cwd = WorktreeOf(sid) /\ saveStep(sid, D, ts)
  \/ SwitchWorktree

SpecWorktrees == Init /\ [][NextWorktrees]_vars

\* ------------------------------------------------- classifying branch names
\* The base commits are object ids as git prints them, 40 hex digits or 64 in
\* a sha256 repository; the worktree ids are none, the empty string and some
\* names and paths.
MaxHashes == 5
BaseCommits == {<<HexRun(n, v)>> : n \in {40, 64}, v \in 1..MaxHashes}
WorktreeIDs == {NoWorktree, "", "wt1", "wt2", "/repo/wt 1", "deadbeef"}

NameInputs ==
  {[fn |-> "input", baseCommit |-> x, worktreeID |-> w] :
     x \in BaseCommits, w \in WorktreeIDs}

\* isShadowBranch(shadowBranchNameForCommit(x, w)) for the input drawn
ClassifyShadowName ==
  /\ call.fn = "input"
  /\ LET name == shadowBranchNameForCommit(call.baseCommit, call.worktreeID) IN
     call' = [fn |-> "shadowBranchNameForCommit", baseCommit |-> call.baseCommit,
              worktreeID |-> call.worktreeID, name |-> name,
              shadow |-> isShadowBranch(name)]
  /\ UNCHANGED <<repoVars, storeVars>>

\* isShadowBranch(CHECKPOINTS_BRANCH)
ClassifyMetadataBranch ==
  /\ call.fn = "input"
  /\ call' = [fn |-> "isShadowBranch", name |-> CHECKPOINTS_BRANCH,
              shadow |-> isShadowBranch(CHECKPOINTS_BRANCH)]
  /\ UNCHANGED <<repoVars, storeVars>>

InitNames == InitRepo /\ InitStore /\ hooksDir = NoHooks /\ call \in NameInputs
NextNames == ClassifyShadowName \/ ClassifyMetadataBranch
SpecNames == InitNames /\ [][NextNames]_vars

\* -------------------------------------------------------------- transcripts
\* A transcript is a sequence of bytes: text "x", white space " " and the
\* line break "nl".
MaxBytes == 4
MaxChunkSize == 3
RECURSIVE BytesUpTo(_)
BytesUpTo(n) ==
  IF n = 0 THEN {<<>>}
  ELSE BytesUpTo(n - 1)
         \cup {Append(t, Ch(c)) : t \in {u \in BytesUpTo(n - 1) : Len(u) = n - 1},
                                   c \in {"x", " ", "nl"}}
Transcripts == BytesUpTo(MaxBytes)

\* the loop of chunkJSONL over the lines, and what follows it
RECURSIVE chunkLoop(_, _, _, _, _)
chunkLoop(lines, maxSize, chunks, current, currentSize) ==
  IF lines = <<>>
  THEN IF current # <<>> /\ trim(join(current)) # <<>>
       THEN Append(chunks, join(current) \o <<Ch("nl")>>)
       ELSE chunks
  ELSE LET line == Head(lines)
           lineSize == Len(line) + 1
           full == currentSize + lineSize > maxSize /\ current # <<>>
       IN chunkLoop(Tail(lines), maxSize,
                    IF full THEN Append(chunks, join(current) \o <<Ch("nl")>>) ELSE chunks,
                    IF full THEN <<line>> ELSE Append(current, line),
                    IF full THEN lineSize ELSE currentSize + lineSize)

chunkJSONL(content, maxSize) ==
  IF Len(content) <= maxSize THEN <<content>>
  ELSE chunkLoop(split(content), maxSize, <<>>, <<>>, 0)

\* Buffer.concat(chunks)
RECURSIVE reassembleTranscript(_)
reassembleTranscript(chunks) ==
  IF chunks = <<>> THEN <<>> ELSE Head(chunks) \o reassembleTranscript(Tail(chunks))

\* git hash-object -w --stdin: the blob holds the bytes it is given
hashObject(content) == [type |-> "blob", bytes |-> content]
\* git(args): the standard output of the command, stdout.trimEnd()
git(stdout) == trimEnd(stdout)
\* git show <ref>:<path> prints the bytes of the blob
showFile(blob) == git(blob.bytes)

\* the transcript writeCommitted stores as full.jsonl, read back by
\* readSessionContent
TranscriptRoundTrip(transcript) == showFile(hashObject(transcript))

TranscriptInputs ==
  {[fn |-> "input", content |-> t, maxSize |-> m] :
     t \in Transcripts, m \in 1..MaxChunkSize}

ChunkTranscript ==
  /\ call.fn = "input"
  /\ LET chunks == chunkJSONL(call.content, call.maxSize) IN
     call' = [fn |-> "chunkJSONL", content |-> call.content, maxSize |-> call.maxSize,
              chunks |-> chunks, out |-> reassembleTranscript(chunks)]
  /\ UNCHANGED <<repoVars, storeVars>>

StoreTranscript ==
  /\ call.fn = "input"
  /\ call' = [fn |-> "readSessionContent", content |-> call.content,
              maxSize |-> call.maxSize, chunks |-> <<>>,
              out |-> TranscriptRoundTrip(call.content)]
  /\ UNCHANGED <<repoVars, storeVars>>

InitTranscripts ==
  InitRepo /\ InitStore /\ hooksDir = NoHooks /\ call \in TranscriptInputs
NextTranscripts == ChunkTranscript \/ StoreTranscript
SpecTranscripts == InitTranscripts /\ [][NextTranscripts]_vars

\* ------------------------------------------- the metadata branch, by names
\* A checkpoint id is the hex of CHECKPOINT_ID_LENGTH / 2 random bytes: the
\* two digits of the first byte, then those of the others.  Two ids can share
\* their first byte.
CHECKPOINT_ID_LENGTH == 12
MaxShards == 2
MaxTails == 3
generateID ==
  {<<HexRun(2, a), HexRun(CHECKPOINT_ID_LENGTH - 2, b)>> :
     a \in 1..MaxShards, b \in 1..MaxTails}

\* the number of digits of a string of hex digits
RECURSIVE HexLen(_)
HexLen(s) == IF s = <<>> THEN 0 ELSE s[1].n + HexLen(Tail(s))
IsHex(s) == \A i \in 1..Len(s) : s[i].c = "hex"

\* /^[0-9a-f]{12}$/
CHECKPOINT_ID_PATTERN(id) == IsHex(id) /\ HexLen(id) = CHECKPOINT_ID_LENGTH

\* the same with a shard of three digits
checkpointIDPathOfThree(id) == [shardDir |-> slice(id, 3), checkpointDir |-> sliceFrom(id, 3)]

\* <id[:2]>/<id[2:]>
checkpointIDPath(id) == [shardDir |-> slice(id, 2), checkpointDir |-> sliceFrom(id, 2)]

TreeEntry(name, hash) == [mode |-> "040000", type |-> "tree", hash |-> hash, name |-> name]

\* git ls-tree <branch>:<shardDir>: the entries of the shard, none if the root
\* has no such entry
lsShard(root, shardDir) ==
  IF \E e \in root : e.name = shardDir
  THEN (CHOOSE e \in root : e.name = shardDir).hash
  ELSE {}

\* the root tree writeCommitted commits: the checkpoint tree under its name
\* in the shard, the shard under its name in the root
CommittedRoot(root, checkpointID, sessionID) ==
  LET checkpointTree == [summary |-> checkpointID, session |-> sessionID]
      shardDir == checkpointIDPath(checkpointID).shardDir
      checkpointDir == checkpointIDPath(checkpointID).checkpointDir
      shardSubtreeEntries ==
        {e \in lsShard(root, shardDir) : e.name # checkpointDir}
          \cup {TreeEntry(checkpointDir, checkpointTree)}
      rootEntries == {e \in root : e.name # shardDir}
  IN rootEntries \cup {TreeEntry(shardDir, shardSubtreeEntries)}

\* what a commit message can hold after the trailer key: an id the engine
\* generated, or digits somebody typed, one too few or one too many
TrailerCandidates ==
  generateID
    \cup {<<HexRun(2, a), HexRun(n, 1)>> :
            a \in 1..MaxShards,
            n \in {CHECKPOINT_ID_LENGTH - 3, CHECKPOINT_ID_LENGTH - 1}}

\* a promotion: condenseSession calls writeCommitted with the id postCommit
\* got from parseCheckpoint, which returns only what matches the pattern
PromoteCheckpoint(id, sid) ==
  /\ CHECKPOINT_ID_PATTERN(id)
  /\ metaTree' = CommittedRoot(metaTree, id, sid)
  /\ UNCHANGED <<commits, head, work, phase, staged, source, msg, refs, objs,
                 sessions, cpLog, cpTip, issued, last, writers, hookVars, cwd,
                 parked, call, storeVars, hooksDir, settings>>

NextShards == \E id \in TrailerCandidates, sid \in Sessions : PromoteCheckpoint(id, sid)
SpecShards == Init /\ [][NextShards]_vars

\* ------------------------------------------------------- installing hooks
\* A hook file is held like the message file, as pieces: "!" is the text
\* `#!/bin/sh`, "M" the marker `# Runlog CLI hook`, "C" the command line of
\* the hook, "x" any other text.
HOOK_MARKER == Ch("M")
Shebang == <<Ch("!")>>
includes(content, piece) == \E i \in 1..Len(content) : content[i] = piece

generateHookScript(hookName) ==
  IF hookName = "commit-msg"
  THEN <<HOOK_MARKER, Ch("nl"), Ch("#"), Ch("x"), Ch("nl"), Ch("C")>>
  ELSE <<HOOK_MARKER, Ch("nl"), Ch("C")>>

\* what readFile(hookPath) gives, the empty string if the file does not exist
existingContent(hookFile) == IF hookFile.there THEN hookFile.content ELSE <<>>

\* the file installGitHooks writes for a hook that has no section yet
AppendOrCreate(hookFile, hookName) ==
  IF existingContent(hookFile) # <<>>
  THEN [there |-> TRUE,
        content |-> trimEnd(existingContent(hookFile)) \o <<Ch("nl"), Ch("nl")>>
                      \o generateHookScript(hookName) \o <<Ch("nl")>>]
  ELSE [there |-> TRUE,
        content |-> Shebang \o <<Ch("nl"), Ch("nl")>>
                      \o generateHookScript(hookName) \o <<Ch("nl")>>]

\* the same without looking for the marker
installGitHooksUnchecked(hookFiles) ==
  [files |-> [h \in HOOK_NAMES |-> AppendOrCreate(hookFiles[h], h)],
   op |-> "install",
   installed |-> Cardinality(HOOK_NAMES)]

installGitHooks(hookFiles) ==
  LET skipped == {h \in HOOK_NAMES : includes(existingContent(hookFiles[h]), HOOK_MARKER)} IN
  [files |-> [h \in HOOK_NAMES |->
                IF h \in skipped THEN hookFiles[h] ELSE AppendOrCreate(hookFiles[h], h)],
   op |-> "install",
   installed |-> Cardinality(HOOK_NAMES \ skipped)]

\* the loop of uninstallGitHooks over the lines of a hook file
RECURSIVE removeSection(_, _, _)
removeSection(lines, filtered, inRunlogSection) ==
  IF lines = <<>> THEN filtered
  ELSE LET line == Head(lines) IN
       IF includes(line, HOOK_MARKER) THEN removeSection(Tail(lines), filtered, TRUE)
       ELSE IF inRunlogSection /\ trim(line) = <<>>
       THEN removeSection(Tail(lines), filtered, FALSE)
       ELSE IF ~inRunlogSection
       THEN removeSection(Tail(lines), Append(filtered, line), inRunlogSection)
       ELSE removeSection(Tail(lines), filtered, inRunlogSection)

uninstallHook(hookFile) ==
  LET newContent == trim(join(removeSection(split(hookFile.content), <<>>, FALSE))) IN
  IF ~hookFile.there THEN hookFile
  ELSE IF newContent = Shebang \/ newContent = <<>> THEN NoHookFile
  ELSE [there |-> TRUE, content |-> newContent \o <<Ch("nl")>>]

uninstallGitHooks(hookFiles) ==
  [files |-> [h \in HOOK_NAMES |-> uninstallHook(hookFiles[h])],
   op |-> "uninstall",
   installed |-> 0]

\* the hooks a repository can have before the engine's first call: none, a
\* script with or without a last line break, one with an empty line inside,
\* a file of white space
UserHooks ==
  {NoHookFile,
   [there |-> TRUE, content |-> <<Ch("!"), Ch("nl"), Ch("x"), Ch("nl")>>],
   [there |-> TRUE, content |-> <<Ch("x")>>],
   [there |-> TRUE, content |-> <<Ch("!"), Ch("nl"), Ch("x"), Ch("nl"), Ch("nl"),
                                  Ch("x"), Ch(" "), Ch("nl")>>],
   [there |-> TRUE, content |-> <<Ch("nl")>>]}

InstallGitHooks ==
  /\ hooksDir' = installGitHooks(hooksDir.files)
  /\ UNCHANGED <<commits, head, work, phase, staged, source, msg, refs, objs,
                 sessions, cpLog, cpTip, issued, last, writers, hookVars, cwd,
                 parked, call, storeVars, metaTree, settings>>

UninstallGitHooks ==
  /\ hooksDir' = uninstallGitHooks(hooksDir.files)
  /\ UNCHANGED <<commits, head, work, phase, staged, source, msg, refs, objs,
                 sessions, cpLog, cpTip, issued, last, writers, hookVars, cwd,
                 parked, call, storeVars, metaTree, settings>>

InitInstall ==
  /\ InitRepo
  /\ call = NoCall
  /\ InitStore
  /\ hooksDir \in {[NoHooks EXCEPT !.files = fs] : fs \in [HOOK_NAMES -> UserHooks]}

NextInstall == InstallGitHooks \/ UninstallGitHooks
SpecInstall == InitInstall /\ [][NextInstall]_vars

\* ---------------------------------------------------------------- settings
\* .entire/settings.json (project) and .entire/settings.local.json (local).  A
\* file holds the keys it was saved with; `enabled` is the set of the at most
\* one value the file gives the key.  enable and disable save a file whole.
DEFAULT_SETTINGS == [enabled |-> FALSE]

\* loadSettingsFile: { ...DEFAULT_SETTINGS, ...data }, and the defaults when
\* the file cannot be read
loadSettingsFile(f) ==
  IF f.there /\ f.enabled # {} THEN [enabled |-> CHOOSE b \in f.enabled : TRUE]
  ELSE DEFAULT_SETTINGS

mergeSettings(project, local) ==
  [enabled |-> IF local.enabled # DEFAULT_SETTINGS.enabled THEN local.enabled
               ELSE project.enabled]

loadSettings(st) ==
  mergeSettings(loadSettingsFile(st.project), loadSettingsFile(st.local))

isEnabled(st) == loadSettings(st).enabled

saveProjectSettings(st, data) ==
  [st EXCEPT !.project = [there |-> TRUE, enabled |-> {data.enabled}]]
saveLocalSettings(st, data) ==
  [st EXCEPT !.local = [there |-> TRUE, enabled |-> {data.enabled}]]

\* enable(options): the settings saved with enabled: true, the git hooks installed
enable(st, hd, local) ==
  LET data == [enabled |-> TRUE]
      written == IF local THEN saveLocalSettings(st, data)
                 ELSE saveProjectSettings(st, data)
  IN [settings |-> [written EXCEPT !.op = "enable", !.disabled = FALSE],
      hooksDir |-> installGitHooks(hd.files)]

\* disable(options): the settings saved with enabled: false, the git hooks
\* removed on uninstall; it returns disabled: true
disable(st, hd, local, uninstall) ==
  LET data == [enabled |-> FALSE]
      written == IF local THEN saveLocalSettings(st, data)
                 ELSE saveProjectSettings(st, data)
  IN [settings |-> [written EXCEPT !.op = "disable", !.disabled = TRUE],
      hooksDir |-> IF uninstall THEN uninstallGitHooks(hd.files) ELSE hd]

Enable(local) ==
  /\ settings' = enable(settings, hooksDir, local).settings
  /\ hooksDir' = enable(settings, hooksDir, local).hooksDir
  /\ UNCHANGED <<commits, head, work, phase, staged, source, msg, refs, objs,
                 sessions, cpLog, cpTip, issued, last, writers, hookVars, cwd,
                 parked, call, storeVars, metaTree>>

Disable(local, uninstall) ==
  /\ settings' = disable(settings, hooksDir, local, uninstall).settings
  /\ hooksDir' = disable(settings, hooksDir, local, uninstall).hooksDir
  /\ UNCHANGED <<commits, head, work, phase, staged, source, msg, refs, objs,
                 sessions, cpLog, cpTip, issued, last, writers, hookVars, cwd,
                 parked, call, storeVars, metaTree>>

\* the hook file of the repository carries the engine's section
InstalledHook(name) == includes(existingContent(hooksDir.files[name]), HOOK_MARKER)

\* cmdHooksGit: `if (!(await isEnabled())) return`
HowEnabled == IF isEnabled(settings) THEN "ok" ELSE "disabled"

\* `git push` in a repository whose pre-push hook file carries the section
GitPush(skip, fails) ==
  /\ InstalledHook("pre-push")
  /\ PrePushHook(HowEnabled, skip, fails)

\* enable and disable in any order, one promotion, and the pushes of the user
NextSettings ==
  \/ \E local \in BOOLEAN : Enable(local)
  \/ \E local \in BOOLEAN, uninstall \in BOOLEAN : Disable(local, uninstall)
  \/ cpTip = 0 /\ WcCall("w1", 1, "s1")
  \/ WcResolve("w1")
  \/ WcListShard("w1")
  \/ WcListRoot("w1")
  \/ WcCommitTree("w1")
  \/ WcUpdateRef("w1")
  \/ \E skip \in BOOLEAN, fails \in BOOLEAN : GitPush(skip, fails)

SpecSettings == Init /\ [][NextSettings]_vars

\* ------------------------------------------------- injecting the trailer
\* The messages injectCheckpointTrailer is given: up to MaxLines lines, each
\* empty, of white space, of text, a `#` comment, an indented `#`, or a
\* trailer of an earlier checkpoint.
MaxLines == 3
MessageLines ==
  {<<>>, <<Ch(" ")>>, <<Ch("x")>>, <<Ch("#"), Ch("x")>>, <<Ch(" "), Ch("#")>>,
   TrailerLine(1)}
Messages ==
  {join(lines) : lines \in UNION {[1..n -> MessageLines] : n \in 1..MaxLines}}

InjectInputs == {[fn |-> "input", message |-> m] : m \in Messages}

\* injectCheckpointTrailer(message, `${CheckpointTrailerKey}: ${cpID}`) for the
\* message drawn and a new checkpoint id
InjectTrailer ==
  /\ call.fn = "input"
  /\ call' = [fn |-> "injectCheckpointTrailer", message |-> call.message,
              trailer |-> TrailerLine(2),
              out |-> injectCheckpointTrailer(call.message, TrailerLine(2))]
  /\ UNCHANGED <<repoVars, storeVars>>

InitInject == InitRepo /\ InitStore /\ hooksDir = NoHooks /\ call \in InjectInputs
NextInject == InjectTrailer
SpecInject == InitInject /\ [][NextInject]_vars

\* ------------------------------------------------------------ properties
\* a step of saveStep for session sid
IsStep(sid) == \E ts \in Clock : saveStep(sid, Dirty, ts)

\* the commits of a shadow branch, from the tip down
RECURSIVE ShadowHistory(_, _)
ShadowHistory(ob, tip) ==
  IF tip = 0 THEN {}
  ELSE {tip} \cup (IF ob[tip].parent.kind = "shadow"
                   THEN ShadowHistory(ob, ob[tip].parent.id) ELSE {})

\* C10: the tree of the temporary checkpoint a step writes holds, for every
\* file the step reports as modified or new, the file's content in the working
\* tree, omits the files the step reports as deleted, and holds the session's
\* metadata subtree.
C10_ShadowTreeIsWorkingTree ==
  (last.op = "saveStep" /\ last.outcome = "written") =>
    LET tree == objs[Len(objs)].tree IN
    /\ \A f \in last.files : tree.files[f] = work[f]
    /\ tree.dirs[last.sid].sessionID = last.sid

C10_Witness ==
  /\ last.op = "saveStep" /\ last.outcome = "written"
  /\ last.files # {}
  /\ objs[Len(objs)].tree.files = HeadTree.files

\* C8: a step for which writeTemporary composes the very tree of the shadow
\* branch's tip is skipped: no commit is created and the branch stays where
\* the first step left it.
C8_IdenticalTreeIsSkipped ==
  [][\A sid \in Sessions, ts \in Clock :
       LET opts == StepOptions(sid, Dirty)
           branchName == getShadowBranchName(opts.baseCommit, opts.worktreeID)
           tip == RevParse(StepMigration(sid).refs, branchName)
           composed == mergeMetadataIntoTree(HeadTree, buildMetadataTree(opts, ts),
                                             opts.metadataDir)
       IN (saveStep(sid, Dirty, ts) /\ tip # 0 /\ objs[tip].tree = composed)
          => (last'.outcome = "skipped" /\ objs' = objs /\ refs' = refs)]_vars

C8_Witness ==
  /\ last.op = "saveStep" /\ last.outcome = "written"
  /\ Len(objs) = 2
  /\ objs[2].parent = [kind |-> "shadow", id |-> 1]
  /\ objs[2].tree = objs[1].tree

\* C9: when writeTemporary reports the step skipped, saveStep leaves the
\* session's stepCount, filesTouched, tokenUsage and
\* transcriptIdentifierAtStart as they were stored.
C9_SkipKeepsSessionState ==
  [][\A sid \in Sessions, ts \in Clock :
       (saveStep(sid, Dirty, ts) /\ StepResult(sid, Dirty, ts).outcome = "skipped")
       => /\ sessions'[sid].stepCount = sessions[sid].stepCount
          /\ sessions'[sid].filesTouched = sessions[sid].filesTouched
          /\ sessions'[sid].tokenUsage = sessions[sid].tokenUsage
          /\ sessions'[sid].transcriptIdentifierAtStart =
               sessions[sid].transcriptIdentifierAtStart]_vars

C9_Witness ==
  /\ last.op = "saveStep" /\ last.outcome = "skipped"
  /\ last.files # {}
  /\ sessions[last.sid].stepCount > 0

\* C4: when HEAD has moved from C0 to C0' and a session based at C0 has a
\* shadow branch, the next saveStep of the session leaves a shadow branch named
\* for C0' whose history holds the old shadow tip, no shadow branch named for
\* C0, and the session based at C0'.
C4_MigrationRenamesShadowBranch ==
  [][\A sid \in Sessions :
       LET state == sessions[sid]
           oldShadowBranch == getShadowBranchName(state.baseCommit, state.worktreeID)
           newShadowBranch == getShadowBranchName(head, state.worktreeID)
           oldTip == RevParse(refs, oldShadowBranch)
       IN (/\ IsStep(sid)
           /\ state.baseCommit # 0 /\ state.baseCommit # head
           /\ oldShadowBranch # newShadowBranch
           /\ oldTip # 0)
          => /\ sessions'[sid].baseCommit = head
             /\ oldTip \in ShadowHistory(objs', RevParse(refs', newShadowBranch))
             /\ RevParse(refs', oldShadowBranch) = 0]_vars

C4_Witness ==
  /\ last.op = "saveStep"
  /\ sessions[last.sid].baseCommit = head
  /\ \E c \in 1..Len(commits) :
       /\ ShortHash(c) # ShortHash(head)
       /\ RevParse(refs, ShortHash(c)) # 0
       /\ refs[<<HeadsHeads, ShortHash(head)>>] = RevParse(refs, ShortHash(c))

\* a step of postCommit
IsPostCommit == phase = "post" /\ phase' = "idle"

\* the session's work is carried forward: files are left, no step counted
\* since the promotion that left them
CarriedForward(state) ==
  state.stepCount = 0 /\ state.filesTouched # {} /\ state.lastCheckpointID # 0

\* C1: when a session based at C0 has recorded a step, and the commit C1 on
\* C0 holds every file the session touched and carries the trailer X that
\* prepareCommitMsg generated for it, postCommit leaves the checkpoint readable
\* under X, no shadow branch for C0, and the session at baseCommit C1 with
\* stepCount 0, no filesTouched and lastCheckpointID X.
C1_FullPromotion ==
  [][\A sid \in Sessions :
       LET state == sessions[sid]
           X == commits[head].cp
           C0 == commits[head].parent
       IN (/\ IsPostCommit
           /\ X # 0 /\ C0 # 0
           /\ \A c \in 1..Len(commits) : c # head => commits[c].cp # X
           /\ findSessionsForCommit(C0) = {sid}
           /\ state.stepCount > 0 /\ state.filesTouched # {}
           /\ state.filesTouched \subseteq diffNameOnly(C0, head)
           /\ RevParse(refs, getShadowBranchName(C0, state.worktreeID)) # 0)
          => /\ readCommitted(cpLog', cpTip', X).sessionID = sid
             /\ RevParse(refs', getShadowBranchName(C0, state.worktreeID)) = 0
             /\ sessions'[sid].baseCommit = head
             /\ sessions'[sid].stepCount = 0
             /\ sessions'[sid].filesTouched = {}
             /\ sessions'[sid].lastCheckpointID = X]_vars

\* C2: when postCommit promotes a session and files the commit does not hold
\* are left to carry forward, a shadow branch named for the new HEAD exists
\* afterwards, and the session is based at the new HEAD with the remaining
\* files as its filesTouched.
C2_CarryForwardHasShadowBranch ==
  [][\A sid \in Sessions :
       LET remaining == sessions[sid].filesTouched \ diffNameOnly(commits[head].parent, head)
       IN (/\ IsPostCommit
           /\ sessions'[sid] # sessions[sid]
           /\ remaining # {}
           /\ sessions'[sid].filesTouched = remaining)
          => /\ refExists(refs', getShadowBranchName(head, sessions'[sid].worktreeID))
             /\ sessions'[sid].baseCommit = head]_vars

\* C3: when the user commits a file carried forward for a session, with no
\* step in between, prepareCommitMsg puts a checkpoint trailer in the message
\* and postCommit writes a checkpoint for the session.
C3_CarriedForwardWorkIsPromoted ==
  [][\A sid \in Sessions :
       /\ (/\ phase = "idle" /\ phase' = "ready" /\ source' = "message"
           /\ sessions[sid].baseCommit = head
           /\ CarriedForward(sessions[sid])
           /\ staged' \cap sessions[sid].filesTouched # {})
          => msg' # 0
       /\ (/\ IsPostCommit /\ source = "message"
           /\ sessions[sid].baseCommit = commits[head].parent
           /\ CarriedForward(sessions[sid])
           /\ diffNameOnly(commits[head].parent, head) \cap sessions[sid].filesTouched # {})
          => /\ cpTip' # cpTip
             /\ \E i \in (Len(cpLog) + 1)..Len(cpLog') :
                  cpLog'[i].root[cpLog'[i].id].sessionID = sid]_vars

\* C5: the content read back for an id from the tip of the metadata branch,
\* once there, never changes.
C5_CommittedCheckpointsImmutable ==
  [][\A id \in Ids :
       readCommitted(cpLog, cpTip, id) # NoCheckpoint
       => readCommitted(cpLog', cpTip', id) = readCommitted(cpLog, cpTip, id)]_vars

\* C6: no two commits of a history carry the same checkpoint id in their
\* trailers.
C6_CheckpointIdOncePerPromotion ==
  \A c1, c2 \in Ancestors(head) :
    (c1 # c2 /\ commits[c1].cp # 0) => commits[c1].cp # commits[c2].cp

\* the commits of the metadata branch, from the tip down
RECURSIVE CommittedHistory(_, _)
CommittedHistory(log, tip) ==
  IF tip = 0 THEN {} ELSE {tip} \cup CommittedHistory(log, log[tip].parent)

\* C7: when two writeCommitted calls for different checkpoint ids have both
\* completed, both checkpoints are read back from the tip of the metadata
\* branch and both commits are in its history.
C7_ConcurrentPromotionsSerialize ==
  \A w, v \in Writers :
    (/\ writers[w].pc = "done" /\ writers[v].pc = "done"
     /\ writers[w].checkpointID # writers[v].checkpointID)
    => /\ readCommitted(cpLog, cpTip, writers[w].checkpointID)
            = CommittedMetadata(WriterOptions(w))
       /\ writers[w].commitHash \in CommittedHistory(cpLog, cpTip)

\* the files of the commit postCommit runs for
CommittedFiles == diffNameOnly(commits[head].parent, head)

\* postCommit promotes session sid in this step
Promotes(sid) ==
  /\ IsPostCommit
  /\ sessions'[sid] # sessions[sid]
  /\ sessions'[sid].lastCheckpointID = commits[head].cp

\* C11: for every promotion, the summary read back for the checkpoint id has
\* filesTouched within committedFiles, the files the promoted commit changes.
C11_SummaryFilesWithinCommit ==
  [][\A sid \in Sessions :
       Promotes(sid) =>
         /\ readCommitted(cpLog', cpTip', commits[head].cp).filesTouched
               \subseteq CommittedFiles
         /\ \A i \in (Len(cpLog) + 1)..Len(cpLog') :
               cpLog'[i].root[cpLog'[i].id].filesTouched \subseteq CommittedFiles]_vars

C11_Witness ==
  /\ cpTip # 0
  /\ \E sid \in Sessions :
       LET id == sessions[sid].lastCheckpointID IN
       /\ id # 0
       /\ sessions[sid].filesTouched # {}
       /\ readCommitted(cpLog, cpTip, id).sessionID = sid
       /\ readCommitted(cpLog, cpTip, id).filesTouched # {}

\* C12: for every carry-forward in postCommit, the remaining files and the
\* committed files together cover the session's filesTouched before the
\* commit, and no remaining file is a committed file.
C12_RemainderPartitionsFilesTouched ==
  [][\A sid \in Sessions :
       (Promotes(sid) /\ sessions'[sid].filesTouched # {}) =>
         LET original == sessions[sid].filesTouched
             remainingFiles == sessions'[sid].filesTouched
         IN /\ original \subseteq remainingFiles \cup CommittedFiles
            /\ remainingFiles \cap CommittedFiles = {}]_vars

\* C13: when one postCommit promotes two sessions, every one of them has its
\* session content in a numbered subdirectory of the committed checkpoint.
C13_OneSubdirectoryPerSession ==
  [][(\A sid \in Sessions : Promotes(sid)) =>
       \A sid \in Sessions :
         \E sessionIndex \in 0..(Cardinality(Sessions) - 1) :
           readSessionContent(cpLog', cpTip', commits[head].cp, sessionIndex).sessionID
             = sid]_vars

\* a run of the installed hook `name` that reached the strategy's handler
HandlerRan(name) ==
  /\ hook'.name = name
  /\ hook'.runs = hook.runs + 1
  /\ ReachesHandler(hook'.how)

\* C14: prepareCommitMsg is idempotent: HEAD, the sessions and the staged
\* files being as they were, a second call on the message file, whatever the
\* source, leaves the content the first call left.
C14_PrepareCommitMsgIdempotent ==
  [][(HandlerRan("prepare-commit-msg") /\ hook'.how = "ok") =>
       \A sid \in Sessions \cup {"none"} :
         (IF Overlapping(staged) = {} THEN sid = "none" ELSE sid \in Overlapping(staged))
           => PreparedMessage(file', source, staged, sid, issued' + 1) = file']_vars

\* C15: whatever prepareCommitMsg and commitMsg calls are made on a message
\* file that carried no checkpoint trailer at first, the message carries at
\* most one checkpoint trailer line.
C15_AtMostOneTrailerLine ==
  (phase = "message" /\ hook.clean) => Cardinality(TrailerLines(file)) <= 1

\* the lines of a message, by what they start with
IsBlankLine(line) == \A i \in 1..Len(line) : line[i].c = " "
FirstPiece(line) ==
  LET text == {i \in 1..Len(line) : line[i].c # " "}
  IN line[CHOOSE i \in text : \A k \in text : i <= k]
IsCommentLine(line) == ~IsBlankLine(line) /\ FirstPiece(line).c = "#"
HasTrailerKey(line) == ~IsBlankLine(line) /\ FirstPiece(line).c = "K"

\* the lines but the trailer's, in their order
RECURSIVE OtherLines(_)
OtherLines(lines) ==
  IF lines = <<>> THEN <<>>
  ELSE IF HasTrailerKey(Head(lines)) THEN OtherLines(Tail(lines))
  ELSE <<Head(lines)>> \o OtherLines(Tail(lines))

\* C16: commitMsg removes the trailer from the message file exactly when the
\* message carries the checkpoint trailer and holds nothing but blank lines,
\* `#` comment lines and trailer lines; then only the trailer's lines go and
\* every other line stays, in order; a message with user content is left as
\* it is.  (A trailer line is a line that starts with the trailer key, a
\* comment line one that starts with `#`, white space before them aside.)
C16_StripsOnlyEmptyMessages ==
  [][(HandlerRan("commit-msg") /\ hook'.how = "ok") =>
       LET lines == split(file)
           carries == parseCheckpoint(file).found
           userContent == \E i \in 1..Len(lines) :
                            /\ ~IsBlankLine(lines[i])
                            /\ ~IsCommentLine(lines[i])
                            /\ ~HasTrailerKey(lines[i])
       IN IF carries /\ ~userContent
          THEN /\ \A i \in 1..Len(split(file')) : ~HasTrailerKey(split(file')[i])
               /\ IF OtherLines(lines) = <<>> THEN file' = <<>>
                  ELSE split(file') = OtherLines(lines)
          ELSE file' = file]_vars

\* commitMsg has stripped a trailer line and left the comment lines
C16_Witness ==
  /\ hook.name = "commit-msg" /\ hook.how = "ok" /\ hook.stripped
  /\ \E i \in 1..Len(split(file)) : IsCommentLine(split(file)[i])
  /\ \A i \in 1..Len(split(file)) : ~HasTrailerKey(split(file)[i])
  /\ ~parseCheckpoint(file).found

\* C17: the commit-msg hook ends with a non-zero exit status when commitMsg
\* has stripped the trailer from a message without user content, and with
\* exit status zero when it has not.
C17_StripExitsNonZero ==
  (hook.name = "commit-msg" /\ hook.how = "ok") =>
    (hook.stripped <=> hook.exit # 0)

\* C18: no failure of the engine inside a git hook makes the installed hook
\* exit non-zero; the one non-zero exit is that of commit-msg after it has
\* emptied the message.
C18_OnlyEmptyMessageExitsNonZero ==
  hook.exit # 0 => (hook.name = "commit-msg" /\ hook.stripped)

\* C19: prePush never raises: without the metadata branch it does nothing,
\* and a failing push is swallowed and leaves the hook's exit status at zero.
C19_PrePushNeverRaises ==
  [][(HandlerRan("pre-push") /\ hook'.how = "ok") =>
       /\ ~hook'.raised
       /\ hook'.cliExit = 0 /\ hook'.exit = 0
       /\ cpTip = 0 => (remote' = remote /\ hook'.pushed = "no branch")
       /\ hook'.pushed = "failed" => remote' = remote]_vars

\* a push of the metadata branch has failed in the pre-push hook
C19_Witness ==
  /\ hook.name = "pre-push" /\ hook.how = "ok"
  /\ cpTip # 0 /\ hook.pushed = "failed" /\ remote # cpTip

\* C20: with the effective setting skipPushSessions true, the pre-push hook
\* does not push the checkpoints branch.
C20_SkipPushSessionsRespected ==
  [][(hook'.name = "pre-push" /\ hook'.runs = hook.runs + 1 /\ hook'.skip) =>
       (remote' = remote /\ hook'.pushed # "done")]_vars

\* a step of prepareCommitMsg
IsPrepareCommitMsg == phase = "idle" /\ phase' = "ready"

\* C21: no step of saveStep, prepareCommitMsg or postCommit, migration
\* included, moves HEAD or adds a commit to the user's branch, and every ref
\* such a step creates, updates or deletes is classified as a shadow branch
\* (the metadata branch apart).
C21_EngineWritesOnlyItsOwnRefs ==
  [][((\E sid \in Sessions : IsStep(sid)) \/ IsPrepareCommitMsg \/ IsPostCommit)
       => /\ head' = head
          /\ commits' = commits
          /\ \A r \in RefNames :
               refs'[r] # refs[r] => isShadowBranch(BranchName(r))]_vars

\* a step has written a ref that is not classified as a shadow branch
C21_Witness ==
  /\ last.op = "saveStep"
  /\ \E r \in RefNames : refs[r] # 0 /\ ~isShadowBranch(BranchName(r))

\* the shadow branch a stored session writes to
ShadowBranchOf(state) == getShadowBranchName(state.baseCommit, state.worktreeID)

\* C22: a step of a session in one worktree never creates, updates or deletes
\* the shadow branch of a session whose worktree is rooted at another path,
\* whether or not the two sessions have the same base commit.
C22_ShadowBranchesPartitionedByWorktree ==
  [][\A sid \in Sessions, other \in Sessions :
       (/\ IsStep(sid)
        /\ sessions[other].worktreePath \notin {"none", cwd})
       => refs'[<<Heads, ShadowBranchOf(sessions[other])>>]
            = refs[<<Heads, ShadowBranchOf(sessions[other])>>]]_vars

\* sessions of two worktrees with the same base commit, one having just
\* written a step
C22_Witness ==
  /\ last.op = "saveStep" /\ last.outcome = "written"
  /\ sessions[last.sid].worktreePath = cwd
  /\ \E other \in Sessions :
       /\ sessions[other].worktreePath \notin {"none", cwd}
       /\ sessions[other].baseCommit = sessions[last.sid].baseCommit

\* C29: the classifier answers false for the metadata branch name, and true
\* for the name shadowBranchNameForCommit builds from any base commit and any
\* worktree id, none included.
C29_ClassifierKnowsEngineNames ==
  /\ call.fn = "isShadowBranch" /\ call.name = CHECKPOINTS_BRANCH => ~call.shadow
  /\ call.fn = "shadowBranchNameForCommit" =>
       /\ call.name = shadowBranchNameForCommit(call.baseCommit, call.worktreeID)
       /\ call.shadow

\* a name with a worktree suffix has been classified as a shadow branch
C29_Witness ==
  /\ call.fn = "shadowBranchNameForCommit"
  /\ Truthy(call.worktreeID)
  /\ Len(call.name) = 4
  /\ call.shadow

\* a step of load(id), of list and of exists(id)
IsStoreLoad(id) == StoreLoad(id)
IsStoreList == StoreList
IsStoreExists(id) == StoreExists(id)

\* the states last saved in full
SavedStates == {saved[id] : id \in {i \in Sessions : saved[i] # NoState}}

\* C23: whatever saves are under way on a session id, load returns the state
\* of the last save of that id that completed, whole, list returns exactly
\* those states, and a session none of whose saves has completed is absent.
C23_NoPartialDocument ==
  [][/\ \A id \in Sessions : IsStoreLoad(id) => got'.state = saved[id]
     /\ IsStoreList => got'.states = SavedStates]_vars

\* load has returned the previous state of a session while the document of
\* its next save is half written
C23_Witness ==
  /\ got.op = "load" /\ got.state # NoState
  /\ got.state = saved[got.id]
  /\ \E p \in Pids :
       /\ procs[p].pc = "write"
       /\ procs[p].state.sessionID = got.id
       /\ procs[p].state # got.state
       /\ disk[tmpPath(sessionFilePath(got.id), p)].len \in 1..(DocLen - 1)

\* the state is ended and its endedAt lies more than the threshold before t
EndedLongAgo(state, t) ==
  /\ state.phase = "ended"
  /\ \E endedAt \in state.endedAt : endedAt + StaleAfter < t

\* C24: load of an id returns the state last saved under it, field for field,
\* exists is true and list holds the state, as long as the state is not
\* stale; after delete, and for an id never saved, load returns null and
\* exists is false.
C24_StoreIsAMap ==
  [][\A id \in Sessions :
       /\ (saved[id] # NoState /\ ~EndedLongAgo(saved[id], now)) =>
            /\ IsStoreLoad(id) => got'.state = saved[id]
            /\ IsStoreExists(id) => got'.exists
            /\ IsStoreList => saved[id] \in got'.states
       /\ saved[id] = NoState =>
            /\ IsStoreLoad(id) => got'.state = NoState
            /\ IsStoreExists(id) => ~got'.exists]_vars

\* a state with every field set has been loaded back
C24_Witness ==
  /\ got.op = "load"
  /\ got.state = saved[got.id]
  /\ got.state.phase = "ended" /\ got.state.endedAt # Undefined
  /\ got.state.stepCount = 1

C26_TranscriptRoundTrip ==
  call.fn = "readSessionContent" => call.out = call.content

\* a transcript that ends with a line break has been stored and read back
C26_Witness ==
  /\ call.fn = "readSessionContent"
  /\ call.content = <<Ch("x"), Ch("nl"), Ch("x"), Ch("nl")>>
  /\ call.out = <<Ch("x"), Ch("nl"), Ch("x")>>

\* C27: the chunks chunkJSONL returns, concatenated in order, are exactly
\* the content it was given, for every content and every maximum size.
C27_ChunkingIsLossless ==
  call.fn = "chunkJSONL" => call.out = call.content

\* a transcript of two lines, each ended by a line break, comes back from
\* two chunks with a line break more
C27_Witness ==
  /\ call.fn = "chunkJSONL"
  /\ call.content = <<Ch("x"), Ch("nl"), Ch("x"), Ch("nl")>>
  /\ call.maxSize = 3
  /\ Len(call.chunks) = 2
  /\ call.out = <<Ch("x"), Ch("nl"), Ch("x"), Ch("nl"), Ch("nl")>>

\* C28: after every promotion, each entry of the metadata branch's root tree
\* is a directory named by exactly two hex digits, the checkpoint just promoted
\* with id X is the directory X[2:] of the root entry X[0:2], and the id every
\* stored path spells matches ^[0-9a-f]{12}$.
C28_RootHoldsOnlyShards ==
  [][\A id \in TrailerCandidates, sid \in Sessions :
       PromoteCheckpoint(id, sid) =>
         /\ \A e \in metaTree' :
              /\ e.type = "tree" /\ e.mode = "040000"
              /\ IsHex(e.name) /\ HexLen(e.name) = 2
              /\ \A c \in e.hash : CHECKPOINT_ID_PATTERN(e.name \o c.name)
         /\ \E e \in metaTree' :
              /\ e.name = slice(id, 2)
              /\ \E c \in e.hash :
                   /\ c.name = sliceFrom(id, 2)
                   /\ c.hash = [summary |-> id, session |-> sid]]_vars

\* two shards, one of them with two checkpoints
C28_Witness ==
  /\ Cardinality(metaTree) = 2
  /\ \E e \in metaTree : Cardinality(e.hash) = 2

\* how many times the section of hook h stands in its file
Sections(hookFile, h) ==
  LET script == generateHookScript(h) IN
  Cardinality({i \in 1..Len(hookFile.content) :
                 /\ i + Len(script) - 1 <= Len(hookFile.content)
                 /\ SubSeq(hookFile.content, i, i + Len(script) - 1) = script})
Markers(hookFile) ==
  Cardinality({i \in 1..Len(hookFile.content) : hookFile.content[i] = HOOK_MARKER})

\* C30: after installGitHooks each of the four hook files holds the engine's
\* section exactly once, after uninstallGitHooks none holds it, and an install
\* that follows an install reports 0 hooks installed and leaves every file as
\* it is.
C30_InstallIsIdempotent ==
  [][/\ InstallGitHooks =>
          /\ \A h \in HOOK_NAMES :
               /\ hooksDir'.files[h].there
               /\ Sections(hooksDir'.files[h], h) = 1
               /\ Markers(hooksDir'.files[h]) = 1
          /\ hooksDir.op = "install" =>
               /\ hooksDir'.installed = 0
               /\ hooksDir'.files = hooksDir.files
     /\ UninstallGitHooks =>
          \A h \in HOOK_NAMES : Markers(hooksDir'.files[h]) = 0]_vars

\* an install repeated, next to a hook of the user's
C30_Witness ==
  /\ hooksDir.op = "install" /\ hooksDir.installed = 0
  /\ \E h \in HOOK_NAMES :
       /\ Sections(hooksDir.files[h], h) = 1
       /\ includes(hooksDir.files[h].content, Ch("x"))
       /\ hooksDir.files[h].content[1] = Ch("!")

\* C31: after disable has returned disabled: true, whatever enable and disable
\* calls came before and with whichever flags, isEnabled is false and a run of
\* an installed git hook does nothing; and the value the local settings file
\* gives `enabled` is the effective one.
C31_DisableSwitchesHooksOff ==
  [][/\ (settings'.op = "disable" /\ settings'.disabled) => ~isEnabled(settings')
     /\ (settings'.local.there /\ settings'.local.enabled # {})
          => isEnabled(settings') \in settings'.local.enabled
     /\ (settings.op = "disable" /\ settings.disabled /\ hook'.runs = hook.runs + 1)
          => (hook'.how = "disabled" /\ remote' = remote)]_vars

C31_Witness ==
  /\ settings.op = "disable" /\ settings.disabled
  /\ settings.project.there /\ settings.local.there
  /\ hook.name = "pre-push"
  /\ cpTip # 0

C33_PostCommitWithoutTrailerOrSession ==
  [][(/\ IsPostCommit
      /\ \/ commits[head].cp = 0
         \/ commits[head].parent = 0
         \/ findSessionsForCommit(commits[head].parent) = {})
       => UNCHANGED <<sessions, refs, cpLog, cpTip>>]_vars

\* postCommit has run for an amended root commit that carries a trailer, with
\* a session that has counted steps
C33_Witness ==
  /\ phase = "idle"
  /\ head > 1
  /\ commits[head].parent = 0
  /\ commits[head].cp # 0
  /\ \E sid \in Sessions : sessions[sid].stepCount > 0

\* the lines of the message before its first `#` line, and from that line on
FirstComment(lines) ==
  LET comments == {i \in 1..Len(lines) : startsWith(lines[i], Ch("#"))} IN
  IF comments = {} THEN Len(lines) + 1
  ELSE CHOOSE i \in comments : \A k \in comments : i <= k
CommentRegion(lines) == SubSeq(lines, FirstComment(lines), Len(lines))
NonBlank(line) == trim(line) # <<>>
NonBlankBefore(lines, i) == SelectSeq(SubSeq(lines, 1, i - 1), NonBlank)

\* where the injected trailer stands in the lines of the result
TrailerAt(outLines, trailer) == {i \in 1..Len(outLines) : outLines[i] = trailer}

\* what the trailer's place has in common in both readings: the trailer is
\* there once, one blank line stands before it and no second one before that,
\* the non-blank lines before it are those before the comments, in order
InjectedAfterBody(lines, outLines, t) ==
  /\ t > 1
  /\ ~NonBlank(outLines[t - 1])
  /\ (t > 2 => NonBlank(outLines[t - 2]))
  /\ NonBlankBefore(outLines, t) = NonBlankBefore(lines, FirstComment(lines))

\* C34 as stated: the injected trailer stands immediately before the first
\* `#` line (or ends the message, but for empty lines, when there is none),
\* after exactly one blank line; the non-blank lines before it and the lines
\* of the comment region are kept, in order.
C34_TrailerImmediatelyBeforeComments ==
  call.fn = "injectCheckpointTrailer" =>
    LET lines == split(call.message)
        outLines == split(call.out)
    IN /\ Cardinality(TrailerAt(outLines, call.trailer)) = 1
       /\ \A t \in TrailerAt(outLines, call.trailer) :
            /\ InjectedAfterBody(lines, outLines, t)
            /\ IF CommentRegion(lines) # <<>>
               THEN SubSeq(outLines, t + 1, Len(outLines)) = CommentRegion(lines)
               ELSE \A i \in (t + 1)..Len(outLines) : outLines[i] = <<>>

\* C34, amended: the injected trailer stands after exactly one blank line and
\* before one empty line, which the first `#` line follows (or which ends the
\* message); the non-blank lines before it and the lines of the comment region
\* are kept, in order.
C34_TrailerBeforeComments ==
  call.fn = "injectCheckpointTrailer" =>
    LET lines == split(call.message)
        outLines == split(call.out)
    IN /\ Cardinality(TrailerAt(outLines, call.trailer)) = 1
       /\ \A t \in TrailerAt(outLines, call.trailer) :
            /\ InjectedAfterBody(lines, outLines, t)
            /\ SubSeq(outLines, t + 1, Len(outLines)) = <<<<>>>> \o CommentRegion(lines)

\* a message with text, blank lines and a comment region has its trailer
C34_Witness ==
  /\ call.fn = "injectCheckpointTrailer"
  /\ split(call.message) = <<<<Ch("x")>>, <<Ch(" ")>>, <<Ch("#"), Ch("x")>>>>
  /\ split(call.out) = <<<<Ch("x")>>, <<>>, call.trailer, <<>>, <<Ch("#"), Ch("x")>>>>

\* C35: when condenseSession raises for a session in postCommit, the handling
\* of the remainder still runs for the session (it is based at the new HEAD with
\* the remaining files, no step counted), and the session's work is not lost:
\* the shadow branch it was on is still there, or a commit of the metadata
\* branch holds the session's checkpoint.
C35_FailedPromotionLosesNoWork ==
  [][\A differs \in SUBSET Files, failing \in SUBSET Sessions :
       \A sid \in failing :
         LET state == sessions[sid]
             shadowBranch == getShadowBranchName(state.baseCommit, state.worktreeID)
             cpID == commits[head].cp
         IN (postCommitFailing(differs, failing) /\ sessions'[sid] # state)
            => /\ sessions'[sid].baseCommit = head
               /\ sessions'[sid].stepCount = 0
               /\ sessions'[sid].filesTouched =
                    filesWithRemainingAgentChanges(differs, state.filesTouched,
                                                   CommittedFiles)
               /\ \/ RevParse(refs', shadowBranch) # 0
                  \/ \E i \in 1..Len(cpLog') :
                       /\ cpLog'[i].id = cpID
                       /\ cpLog'[i].root[cpID].sessionID = sid]_vars

\* a promotion has failed and left files to carry forward: the session is
\* reset, and no checkpoint was ever committed
C35_Witness ==
  /\ phase = "idle"
  /\ cpLog = <<>>
  /\ \E sid \in Sessions :
       /\ sessions[sid].lastCheckpointID # 0
       /\ sessions[sid].stepCount = 0
       /\ sessions[sid].filesTouched # {}
       /\ RevParse(refs, getShadowBranchName(commits[head].parent, NoWorktree)) # 0


\* the steps on the shadow branch of session sid are task steps only
OnlyTaskSteps(sid) ==
  LET state == sessions[sid]
      tip == RevParse(refs, getShadowBranchName(state.baseCommit, state.worktreeID))
  IN /\ state.baseCommit # 0
     /\ tip # 0
     /\ \A i \in ShadowHistory(objs, tip) : objs[i].tree.dirs[sid] = NoMeta

\* C36: saveTaskStep updates the session as saveStep does for the same files
\* (stepCount incremented and filesTouched merged when the checkpoint is
\* written, both unchanged when the write is skipped), so that a session whose
\* steps are task steps only gets the trailer when staged files overlap its work.
C36_TaskStepUpdatesAsStep ==
  [][/\ \A sid \in Sessions, ts \in Clock :
          saveTaskStep(sid, Dirty, ts)
          => LET migrated == StepMigration(sid).state
                 asStep == StoredAfterStep(migrated, TaskStepResult(sid, Dirty, ts), Dirty)
             IN /\ sessions'[sid].stepCount = asStep.stepCount
                /\ sessions'[sid].filesTouched = asStep.filesTouched
     /\ \A S \in SUBSET Files, sid \in Sessions :
          LET state == sessions[sid]
              shadowBranch == getShadowBranchName(state.baseCommit, state.worktreeID)
          IN (/\ prepareCommitMsg(S, "message")
              /\ state.baseCommit = head
              /\ OnlyTaskSteps(sid)
              /\ stagedFilesOverlapWithContent(refs, shadowBranch, S, state.filesTouched))
             => msg' # 0]_vars

C36_Witness ==
  /\ last.op = "saveTaskStep" /\ last.outcome = "written"
  /\ last.files # {}
  /\ OnlyTaskSteps(last.sid)
  /\ sessions[last.sid].stepCount = 0


\* C37: when a step finds HEAD moved and the shadow branch named for the new
\* HEAD exists already, or the one named for the old base is gone, the
\* migration leaves every ref as it was and only sets the session's
\* baseCommit to HEAD.
C37_MigrationKeepsExistingTarget ==
  [][\A sid \in Sessions :
       LET state == sessions[sid]
           oldShadowBranch == getShadowBranchName(state.baseCommit, state.worktreeID)
           newShadowBranch == getShadowBranchName(head, state.worktreeID)
       IN (/\ \E ts \in Clock : saveStepWithin(sid, Dirty, ts, MaxMigrateSteps)
           /\ state.baseCommit # 0 /\ state.baseCommit # head
           /\ \/ refExists(refs, newShadowBranch)
              \/ ~refExists(refs, oldShadowBranch))
          => /\ StepMigration(sid).refs = refs
             /\ StepMigration(sid).state = [state EXCEPT !.baseCommit = head]]_vars

\* a session stepped onto the branch another session had at the new HEAD, its
\* own old tip under the second name
C37_Witness ==
  /\ last.op = "saveStep"
  /\ LET sid == last.sid
         name == getShadowBranchName(head, sessions[sid].worktreeID)
         tip == refs[<<Heads, name>>]
         moved == refs[<<HeadsHeads, name>>]
     IN /\ sessions[sid].baseCommit = head
        /\ tip # 0 /\ moved # 0 /\ moved # tip
        /\ objs[moved].tree.dirs[sid] # NoMeta
        /\ moved \notin ShadowHistory(objs, tip)
        /\ \E i \in ShadowHistory(objs, tip) :
             \E other \in Sessions \ {sid} : objs[i].tree.dirs[other] # NoMeta


\* the user commit a shadow branch's history starts from
RECURSIVE ShadowRoot(_, _)
ShadowRoot(ob, tip) ==
  IF ob[tip].parent.kind = "shadow" THEN ShadowRoot(ob, ob[tip].parent.id)
  ELSE ob[tip].parent.id

\* C38: the temporary checkpoint commit a step creates has the previous tip of
\* the session's shadow branch as its parent when the branch existed, and the
\* session's baseCommit otherwise; the branch's history then is a chain of
\* checkpoints that starts from the session's baseCommit.
C38_CheckpointParent ==
  [][\A sid \in Sessions, ts \in Clock :
       (/\ saveStepWithin(sid, Dirty, ts, MaxMigrateSteps)
        /\ StepResult(sid, Dirty, ts).outcome = "written")
       => LET state == sessions'[sid]
              branch == getShadowBranchName(state.baseCommit, state.worktreeID)
              before == StepMigration(sid).refs[<<Heads, branch>>]
              tip == refs'[<<Heads, branch>>]
          IN /\ tip = Len(objs) + 1
             /\ objs'[tip].parent =
                  IF before # 0 THEN [kind |-> "shadow", id |-> before]
                  ELSE [kind |-> "user", id |-> state.baseCommit]
             /\ ShadowRoot(objs', tip) = state.baseCommit]_vars

\* C38 with the root as the code leaves it: the chain starts from a commit
\* with the 7-character prefix of the session's baseCommit.
C38_CheckpointChain ==
  [][\A sid \in Sessions, ts \in Clock :
       (/\ saveStepWithin(sid, Dirty, ts, MaxMigrateSteps)
        /\ StepResult(sid, Dirty, ts).outcome = "written")
       => LET state == sessions'[sid]
              branch == getShadowBranchName(state.baseCommit, state.worktreeID)
              before == StepMigration(sid).refs[<<Heads, branch>>]
              tip == refs'[<<Heads, branch>>]
          IN /\ tip = Len(objs) + 1
             /\ objs'[tip].parent =
                  IF before # 0 THEN [kind |-> "shadow", id |-> before]
                  ELSE [kind |-> "user", id |-> state.baseCommit]
             /\ ShortHash(ShadowRoot(objs', tip)) = ShortHash(state.baseCommit)]_vars

\* a second checkpoint on a branch that starts from another commit than the
\* session's baseCommit
C38_Witness ==
  /\ last.op = "saveStep" /\ last.outcome = "written"
  /\ LET state == sessions[last.sid]
         tip == refs[<<Heads, getShadowBranchName(state.baseCommit, state.worktreeID)>>]
     IN /\ tip = Len(objs)
        /\ objs[tip].parent.kind = "shadow"
        /\ ShadowRoot(objs, tip) # state.baseCommit


\* C39: a promotion run after the others have ended adds one commit to the
\* metadata branch, its parent the tip before (none when there was no branch),
\* and every checkpoint of another id that could be read or listed before it
\* reads the same afterwards.
C39_MetadataBranchAppendOnly ==
  [][(WcUpdateRef("w1") /\ writers'["w1"].pc = "done")
     => LET id == writers["w1"].checkpointID IN
        /\ cpTip' = Len(cpLog)
        /\ cpLog[cpTip'].parent = cpTip
        /\ logCommits(cpLog', cpTip', ListLimit)
             = logCommits(cpLog, cpTip, ListLimit) \cup {cpTip'}
        /\ \A i \in Ids \ {id} :
             readCommitted(cpLog, cpTip, i) # NoCheckpoint
             => readCommitted(cpLog', cpTip', i) = readCommitted(cpLog, cpTip, i)
        /\ listCommitted(cpLog, cpTip, ListLimit) \ {id}
             \subseteq listCommitted(cpLog', cpTip', ListLimit)]_vars

\* a second promotion ended, of an id in the shard of the first
C39_Witness ==
  /\ writers["w1"].pc = "done"
  /\ cpTip = Len(cpLog)
  /\ cpLog[cpTip].parent # 0
  /\ \E i \in Ids \ {cpLog[cpTip].id} :
       /\ Shard(i) = Shard(cpLog[cpTip].id)
       /\ i \in listCommitted(cpLog, cpTip, ListLimit)


\* C40: while no hook or step is running, every session with stepCount > 0
\* has its shadow branch, at the name derived from its baseCommit and
\* worktreeID.
C40_SteppedSessionHasShadowBranch ==
  phase = "idle"
  => \A sid \in Sessions :
       LET state == sessions[sid] IN
       state.stepCount > 0
       => refs[<<Heads, getShadowBranchName(state.baseCommit, state.worktreeID)>>] # 0

\* postCommit promoted one session and deleted the shadow branch another
\* session with steps is based on
C40_Witness ==
  /\ phase = "idle"
  /\ cpTip # 0
  /\ \E sid \in Sessions, other \in Sessions :
       /\ sessions[sid].baseCommit = head
       /\ sessions[sid].stepCount = 0
       /\ sessions[sid].lastCheckpointID = commits[head].cp
       /\ commits[head].cp # 0
       /\ sessions[other].stepCount > 0
       /\ sessions[other].baseCommit = commits[head].parent
       /\ refs[<<Heads, ShortHash(sessions[other].baseCommit)>>] = 0
       /\ refs[<<HeadsHeads, ShortHash(sessions[other].baseCommit)>>] = 0
====
